---- MODULE Spec2Model ----
(***************************************************************************)
(* A model of the recipe recommender's conversation orchestrator           *)
(* (ConversationalAgent.handle_message) and of the collaborators it drives *)
(* (MemoryAgent, APIDataAgent, DietaryRestrictionAgent, ObjectiveAgent).   *)
(* Strings are TLA+ strings; Python's str methods and the regular          *)
(* expressions of the source are computed character by character.          *)
(***************************************************************************)
EXTENDS Integers, Sequences, FiniteSets, TLC

(***************************************************************************)
(* Python str / re primitives used by the source                           *)
(***************************************************************************)

Ch(s, i) == SubSeq(s, i, i)

\* Python's s[i-1:j]: a slice that stops at the end of the string
Slice(s, i, j) ==
  LET e == IF j > Len(s) THEN Len(s) ELSE j
  IN IF i > e THEN "" ELSE SubSeq(s, i, e)

UpperAlpha == "ABCDEFGHIJKLMNOPQRSTUVWXYZ"

LowerAlpha == "abcdefghijklmnopqrstuvwxyz"

DigitChars == "0123456789"

UpperSet == {Ch(UpperAlpha, i) : i \in 1..26}

LowerSet == {Ch(LowerAlpha, i) : i \in 1..26}

DigitSet == {Ch(DigitChars, i) : i \in 1..10}

\* \s of the re module, restricted to the white space the messages contain
SpaceSet == {" ", "\t", "\n"}

\* \w of the re module: a character on which \b does not break
WordSet == UpperSet \cup LowerSet \cup DigitSet \cup {"_"}

LowerChar(c) ==
  IF c \in UpperSet
  THEN Ch(LowerAlpha, CHOOSE i \in 1..26 : Ch(UpperAlpha, i) = c)
  ELSE c

RECURSIVE LowerOf(_)
LowerOf(s) ==
  IF Len(s) = 0 THEN "" ELSE LowerChar(Head(s)) \o LowerOf(Tail(s))

\* The labels of the model's profiles and recipes. The tables below hold the
\* values of lower() and strip() on them; any other string is computed.
KnownLabels ==
  {"Vegan", "vegan", "peanut", "peanut allergy", "chickpeas", "broccoli", "rice",
   "eggs", "gluten free", "bulking", "Calories", "Protein", "Energy", "protein",
   "fiber", "calories", "Chickpea Curry", "Chicken Rice Bowl", "Tofu Scramble",
   "Protein bar", "chicken", "tofu", "spinach"}

lower_table == [s \in KnownLabels |-> LowerOf(s)]

\* s.lower()
str_lower(s) == IF s \in KnownLabels THEN lower_table[s] ELSE LowerOf(s)

\* Python's `sub in s`
str_contains(s, sub) ==
  \E i \in 0..(Len(s) - Len(sub)) : SubSeq(s, i + 1, i + Len(sub)) = sub

RECURSIVE str_replace(_, _, _)
str_replace(s, old, new) ==
  IF Len(s) < Len(old) THEN s
  ELSE IF SubSeq(s, 1, Len(old)) = old
       THEN new \o str_replace(SubSeq(s, Len(old) + 1, Len(s)), old, new)
       ELSE Head(s) \o str_replace(Tail(s), old, new)

RECURSIVE str_lstrip(_)
str_lstrip(s) ==
  IF Len(s) > 0 /\ Head(s) \in SpaceSet THEN str_lstrip(Tail(s)) ELSE s

RECURSIVE str_rstrip(_)
str_rstrip(s) ==
  IF Len(s) > 0 /\ Ch(s, Len(s)) \in SpaceSet
  THEN str_rstrip(SubSeq(s, 1, Len(s) - 1)) ELSE s

strip_table == [s \in KnownLabels |-> str_rstrip(str_lstrip(s))]

\* s.strip()
str_strip(s) == IF s \in KnownLabels THEN strip_table[s] ELSE str_rstrip(str_lstrip(s))

\* s.split(sep) for a one-character separator: the pieces, empty ones included
RECURSIVE str_split_from(_, _, _)
str_split_from(s, sep, cur) ==
  IF Len(s) = 0 THEN <<cur>>
  ELSE IF Head(s) = sep
       THEN <<cur>> \o str_split_from(Tail(s), sep, "")
       ELSE str_split_from(Tail(s), sep, cur \o Head(s))

str_split(s, sep) == str_split_from(s, sep, "")

\* sep.join(items)
RECURSIVE str_join(_, _)
str_join(sep, items) ==
  IF Len(items) = 0 THEN ""
  ELSE IF Len(items) = 1 THEN items[1]
       ELSE items[1] \o sep \o str_join(sep, Tail(items))

\* the length of the longest prefix of s made of characters of set
RECURSIVE RunLen(_, _)
RunLen(s, set) ==
  IF Len(s) > 0 /\ Head(s) \in set THEN 1 + RunLen(Tail(s), set) ELSE 0

DigitVal(c) == (CHOOSE i \in 1..10 : Ch(DigitChars, i) = c) - 1

\* int(s) for a string of decimal digits
RECURSIVE ParseInt(_)
ParseInt(s) ==
  IF Len(s) = 0 THEN 0
  ELSE 10 * ParseInt(SubSeq(s, 1, Len(s) - 1)) + DigitVal(Ch(s, Len(s)))

\* re.findall(r"[a-z]+", s): the maximal runs of lower-case letters, in order
RECURSIVE re_findall_az(_)
re_findall_az(s) ==
  IF Len(s) = 0 THEN <<>>
  ELSE LET n == RunLen(s, LowerSet)
       IN IF n = 0 THEN re_findall_az(Tail(s))
          ELSE <<SubSeq(s, 1, n)>> \o re_findall_az(SubSeq(s, n + 1, Len(s)))

\* \b between positions i-1 and i of s (1-based; i = Len(s)+1 is the end)
WordBoundary(s, i) ==
  LET before == i > 1 /\ Ch(s, i - 1) \in WordSet
      after  == i <= Len(s) /\ Ch(s, i) \in WordSet
  IN before # after

SeqToSet(q) == {q[i] : i \in 1..Len(q)}

\* a list holding the elements of a set once each (list(set) in Python: the
\* order is the interpreter's; the model fixes one)
RECURSIVE SetToSeq(_)
SetToSeq(S) ==
  IF S = {} THEN <<>>
  ELSE LET x == CHOOSE y \in S : TRUE IN <<x>> \o SetToSeq(S \ {x})

\* Python's None, for the optional string and index values
None == "<None>"

\* the value of a failed index resolution (int() of \d+ is never negative)
NoIndex == 0 - 1

(***************************************************************************)
(* ConversationalAgent: the pure helpers of handle_message                 *)
(***************************************************************************)

\* the messages the model's callers send
Messages ==
  {"Clear my fridge",
   "reset inventory and show recipe 2",
   "show me the recipe for number 2",
   "2 high protein snacks with chickpeas",
   "please suggest something",
   "recipe number 0"}

\* the objectives the model's profiles and analyses hold
Objectives == {None, "bulking"}

Min(S) == CHOOSE a \in S : \A b \in S : a <= b

\* re.search(r"number\s+(\d+)", msg) tried at position i: int(group 1), or NoIndex
NumberMatchAt(msg, i) ==
  LET rest  == Slice(msg, i + 6, Len(msg))
      ws    == RunLen(rest, SpaceSet)
      rest2 == Slice(rest, ws + 1, Len(rest))
      nd    == RunLen(rest2, DigitSet)
  IN IF Slice(msg, i, i + 5) = "number" /\ ws >= 1 /\ nd >= 1
     THEN ParseInt(Slice(rest2, 1, nd)) ELSE NoIndex

\* re.search(r"\b(\d+)(st|nd|rd|th)\b", msg) tried at position i
OrdinalMatchAt(msg, i) ==
  LET rest == Slice(msg, i, Len(msg))
      nd   == RunLen(rest, DigitSet)
  IN IF /\ nd >= 1
        /\ WordBoundary(msg, i)
        /\ Slice(rest, nd + 1, nd + 2) \in {"st", "nd", "rd", "th"}
        /\ WordBoundary(msg, i + nd + 2)
     THEN ParseInt(Slice(rest, 1, nd)) ELSE NoIndex

\* re.search(r"\b([1-9])\b", msg) tried at position i
BareDigitMatchAt(msg, i) ==
  IF /\ Ch(msg, i) \in (DigitSet \ {"0"})
     /\ WordBoundary(msg, i)
     /\ WordBoundary(msg, i + 1)
  THEN ParseInt(Ch(msg, i)) ELSE NoIndex

\* the pattern `pattern` tried at position i
MatchAt(pattern, msg, i) ==
  CASE pattern = "number" -> NumberMatchAt(msg, i)
    [] pattern = "ordinal" -> OrdinalMatchAt(msg, i)
    [] pattern = "digit" -> BareDigitMatchAt(msg, i)

\* re.search: the match at the leftmost position that has one
FirstMatch(msg, pattern) ==
  LET hits == {i \in 1..Len(msg) : MatchAt(pattern, msg, i) # NoIndex}
  IN IF hits = {} THEN NoIndex ELSE MatchAt(pattern, msg, Min(hits))

\* word_to_idx, in the dict's insertion order
word_to_idx ==
  << <<"first", 1>>, <<"second", 2>>, <<"third", 3>>, <<"fourth", 4>>, <<"fifth", 5>> >>

WordMatch(msg) ==
  LET hits == {k \in 1..Len(word_to_idx) : str_contains(msg, word_to_idx[k][1])}
  IN IF hits = {} THEN NoIndex ELSE word_to_idx[Min(hits)][2]

\* _extract_index_from_message with the bare digit tried first
ExtractIndexDigitFirst(message) ==
  LET msg == str_lower(message)
      m1  == FirstMatch(msg, "number")
      m2  == FirstMatch(msg, "ordinal")
      m3  == WordMatch(msg)
      m4  == FirstMatch(msg, "digit")
  IN IF m4 # NoIndex THEN m4
     ELSE IF m1 # NoIndex THEN m1
     ELSE IF m2 # NoIndex THEN m2
     ELSE m3

ExtractIndex(message) ==
  LET msg == str_lower(message)
      m1  == FirstMatch(msg, "number")
      m2  == FirstMatch(msg, "ordinal")
      m3  == WordMatch(msg)
      m4  == FirstMatch(msg, "digit")
  IN IF m1 # NoIndex THEN m1
     ELSE IF m2 # NoIndex THEN m2
     ELSE IF m3 # NoIndex THEN m3
     ELSE m4

index_table == [m \in Messages |-> ExtractIndex(m)]

_extract_index_from_message(message) ==
  IF message \in Messages THEN index_table[message] ELSE ExtractIndex(message)

detail_keywords ==
  {"recipe", "ingredients", "how do i make", "how to make", "steps", "method",
   "instructions"}

IsDetailRequest(message) ==
  LET msg == str_lower(message)
  IN \E k \in detail_keywords : str_contains(msg, k)

detail_table == [m \in Messages |-> IsDetailRequest(m)]

_is_detail_request(message) ==
  IF message \in Messages THEN detail_table[message] ELSE IsDetailRequest(message)

clear_phrases == {"clear my fridge", "clear my inventory", "reset inventory"}

HasClearPhrase(message) ==
  \E phrase \in clear_phrases : str_contains(str_lower(message), phrase)

clear_table == [m \in Messages |-> HasClearPhrase(m)]

\* the condition of handle_message's step 0
IsClearInventory(message) ==
  IF message \in Messages THEN clear_table[message] ELSE HasClearPhrase(message)

remove_phrases ==
  <<"i am", "i'm", "please", "can you", "could you", "suggest", "give me",
    "recommend", "recipes", "recipe", "in my inventory", "currently have",
    "trying to", "trying", "bulk", "cut", "lose weight", "healthy", "healthier",
    "allergic to", "allergy", "inventory", "dietary", "preference">>

query_stopwords ==
  {"a", "an", "the", "for", "and", "with", "or", "of", "on", "in", "to", "my",
   "is", "am"}

RECURSIVE RemovePhrases(_, _)
RemovePhrases(text, k) ==
  IF k > Len(remove_phrases) THEN text
  ELSE RemovePhrases(str_replace(text, remove_phrases[k], " "), k + 1)

\* step 2 of _build_recipe_query: the keywords left in the message
MessageKeywords(message) ==
  LET text   == RemovePhrases(str_lower(message), 1)
      tokens == re_findall_az(text)
  IN SelectSeq(tokens, LAMBDA t : t \notin query_stopwords)

keywords_table == [m \in Messages |-> MessageKeywords(m)]

Keywords(message) ==
  IF message \in Messages THEN keywords_table[message] ELSE MessageKeywords(message)

\* a query builder that falls back on the whole message
BuildQueryOrMessage(analysis, message) ==
  IF Len(analysis.inventory) > 0 THEN str_join(", ", analysis.inventory)
  ELSE IF Len(Keywords(message)) >= 2 THEN str_join(" ", Keywords(message))
  ELSE message

\* a query builder that prefers the message's keywords to the inventory
BuildQueryMessageFirst(analysis, message) ==
  IF Len(Keywords(message)) >= 2 THEN str_join(" ", Keywords(message))
  ELSE IF Len(analysis.inventory) > 0 THEN str_join(", ", analysis.inventory)
  ELSE None

\* the query string of _build_recipe_query, or None when none can be formed
_build_recipe_query(analysis, message) ==
  LET inv      == analysis.inventory
      inv_list == [k \in 1..Len(SelectSeq(inv, LAMBDA i : Len(str_strip(i)) > 0)) |->
                     str_strip(SelectSeq(inv, LAMBDA i : Len(str_strip(i)) > 0)[k])]
      keywords == Keywords(message)
  IN IF Len(inv_list) > 0 THEN str_join(", ", inv_list)
     ELSE IF Len(keywords) >= 2 THEN str_join(" ", SubSeq(keywords, 1, IF Len(keywords) < 6 THEN Len(keywords) ELSE 6))
     ELSE None

\* the ingredients the model's inventories are made of
Ingredients == {"rice", "eggs"}

\* the queries the model's turns form
Queries ==
  {_build_recipe_query([inventory |-> SetToSeq(inv)], m) :
     inv \in SUBSET Ingredients, m \in Messages} \ {None}

\* Python truthiness of an optional string
Truthy(v) == v # None /\ v # ""

\* str(v or "")
StrOrEmpty(v) == IF Truthy(v) THEN v ELSE ""

\* _infer_focus_nutrient with the protein rule tried before the fiber rule
InferFocusProteinFirst(message, objective) ==
  LET text == str_lower(message \o " " \o StrOrEmpty(objective))
      obj  == str_lower(StrOrEmpty(objective))
  IN IF str_contains(text, "protein") THEN "protein"
     ELSE IF str_contains(text, "fibre") \/ str_contains(text, "fiber") THEN "fiber"
     ELSE IF \E w \in {"cutting", "calorie deficit", "low calorie", "weight loss"} :
               str_contains(text, w)
          THEN "calories"
     ELSE IF obj \in {"bulking", "muscle gain", "high protein"} THEN "protein"
     ELSE IF obj \in {"weight loss", "cutting"} THEN "calories"
     ELSE None

InferFocusNutrient(message, objective) ==
  LET text == str_lower(message \o " " \o StrOrEmpty(objective))
      obj  == str_lower(StrOrEmpty(objective))
  IN IF str_contains(text, "fibre") \/ str_contains(text, "fiber") THEN "fiber"
     ELSE IF str_contains(text, "protein") \/ str_contains(text, "high protein")
          THEN "protein"
     ELSE IF \E w \in {"cutting", "calorie deficit", "low calorie", "weight loss"} :
               str_contains(text, w)
          THEN "calories"
     ELSE IF obj \in {"bulking", "muscle gain", "high protein"} THEN "protein"
     ELSE IF obj \in {"weight loss", "cutting"} THEN "calories"
     ELSE None

focus_table == [m \in Messages |-> [o \in Objectives |-> InferFocusNutrient(m, o)]]

_infer_focus_nutrient(message, analysis) ==
  IF message \in Messages /\ analysis.objective \in Objectives
  THEN focus_table[message][analysis.objective]
  ELSE InferFocusNutrient(message, analysis.objective)

snack_words ==
  {"snack", "snacks", "protein bar", "bars", "ready to eat", "grab and go",
   "on the go"}

macro_words ==
  {"macros", "macro info", "nutritional info", "nutrition info", "calories",
   "grams of protein", "macro breakdown"}

WantsUsda(message, objective) ==
  LET text == str_lower(message \o " " \o StrOrEmpty(objective))
  IN \E w \in snack_words \cup macro_words : str_contains(text, w)

wants_usda_table == [m \in Messages |-> [o \in Objectives |-> WantsUsda(m, o)]]

_wants_usda_snacks_or_macros(message, analysis) ==
  IF message \in Messages /\ analysis.objective \in Objectives
  THEN wants_usda_table[message][analysis.objective]
  ELSE WantsUsda(message, analysis.objective)

(***************************************************************************)
(* models.py                                                               *)
(***************************************************************************)

\* an optional number: <<>> is None, <<v>> is the number v
NoneNum == <<>>

Num(v) == <<v>>

\* UserProfile(user_id=username, name=username): the constructor's defaults
UserProfile(username) ==
  [inventory |-> {}, objective |-> None, user_id |-> username,
   dietary_restrictions |-> {}, allergies |-> {}, likes |-> {}, dislikes |-> {}]

(***************************************************************************)
(* MemoryAgent: the workbook rows, kept in self.df                         *)
(***************************************************************************)

_parse_dietary_restrictions(s) ==
  IF Len(s) = 0 THEN {}
  ELSE LET parts == str_split(s, ",")
       IN {str_lower(str_strip(parts[k])) :
             k \in {j \in 1..Len(parts) : Len(str_strip(parts[j])) > 0}}

_format_dietary_restrictions(user) ==
  LET rules     == SetToSeq(user.dietary_restrictions)
      allergies == [k \in 1..Cardinality(user.allergies) |->
                      SetToSeq(user.allergies)[k] \o " allergy"]
  IN str_join(", ", rules \o allergies)

\* The summary is "PROFILE_DATA: " + json.dumps(payload) [+ "\nCONTEXT: " + ctx].
\* json.dumps then json.loads gives back the payload's strings and lists, so the
\* model keeps the payload and the context note as a structure.
_create_conversation_summary(user, ctx) ==
  [ctx |-> ctx,
   payload |-> [inventory |-> user.inventory, objective |-> user.objective,
                allergies |-> user.allergies, likes |-> user.likes,
                dislikes |-> user.dislikes]]

_parse_conversation_summary(s) == s.payload

_update_profile_from_summary(user, d) ==
  [user EXCEPT !.objective = IF Truthy(d.objective) THEN d.objective ELSE @,
               !.likes = d.likes,
               !.dislikes = d.dislikes,
               !.inventory = d.inventory,
               !.allergies = d.allergies]

\* load_user_profile for a username that has a row
load_user_profile(frame, username) ==
  LET row == frame[username]
      p0  == UserProfile(username)
      p1  == IF row.DietRules # ""
             THEN [p0 EXCEPT !.dietary_restrictions =
                                _parse_dietary_restrictions(row.DietRules)]
             ELSE p0
  IN _update_profile_from_summary(p1, _parse_conversation_summary(row.ConvSummary))

\* a save that assigns the row without the UserName mask: every row gets it
SaveWithoutMask(frame, user, conversation_context) ==
  [u \in DOMAIN frame \cup {user.user_id} |->
     [DietRules |-> _format_dietary_restrictions(user),
      ConvSummary |-> _create_conversation_summary(user, conversation_context)]]

\* the rows of self.df after save_user_profile (the frame is updated before
\* to_excel writes the file, so it holds the row also when the write fails)
save_user_profile(frame, user, conversation_context) ==
  LET row == [DietRules |-> _format_dietary_restrictions(user),
              ConvSummary |-> _create_conversation_summary(user, conversation_context)]
  IN (user.user_id :> row) @@ frame

\* what save_user_profile returns: to_excel wrote the file, or raised
SaveResult(written) ==
  IF written THEN [status |-> "success"] ELSE [status |-> "error"]

(***************************************************************************)
(* DietaryRestrictionAgent                                                 *)
(***************************************************************************)

canonical_map ==
  [r \in {"gluten-free", "gluten free", "celiac", "celiac disease", "vegan",
          "strict vegan", "vegetarian", "lacto ovo vegetarian", "pescetarian",
          "pescatarian"} |->
     CASE r \in {"gluten-free", "gluten free", "celiac", "celiac disease"} -> "gluten free"
       [] r \in {"vegan", "strict vegan"} -> "vegan"
       [] r = "vegetarian" -> "vegetarian"
       [] r = "lacto ovo vegetarian" -> "lacto ovo vegetarian"
       [] OTHER -> "pescetarian"]

_normalise_restrictions(restrictions) ==
  LET lowered == {str_lower(str_strip(r)) : r \in restrictions} \ {""}
  IN {IF r \in DOMAIN canonical_map THEN canonical_map[r] ELSE r : r \in lowered}

enforced_tags ==
  {"gluten free", "vegan", "vegetarian", "lacto ovo vegetarian", "pescetarian"}

\* a lifestyle gate that enforces every required tag, known or not
MatchesEveryTag(recipe, restrictions) ==
  _normalise_restrictions(restrictions)
    \subseteq {str_lower(d) : d \in SeqToSet(recipe.diets)}

_matches_lifestyle(recipe, restrictions) ==
  LET recipe_diets_lower == {str_lower(d) : d \in SeqToSet(recipe.diets)}
      required_tags      == _normalise_restrictions(restrictions)
  IN \A tag \in required_tags :
       tag \in enforced_tags => tag \in recipe_diets_lower

\* an allergy gate that matches an allergy term inside an allergen tag
ViolatesBySubstring(recipe, allergies) ==
  \E allergy \in allergies, k \in 1..Len(recipe.allergens) :
    /\ str_lower(str_strip(allergy)) # ""
    /\ str_contains(str_lower(recipe.allergens[k]), str_lower(str_strip(allergy)))

_violates_allergies(recipe, allergies) ==
  LET recipe_allergens_lower == {str_lower(a) : a \in SeqToSet(recipe.allergens)}
  IN \E allergy \in allergies :
       LET a == str_lower(str_strip(allergy))
       IN a # "" /\ a \in recipe_allergens_lower

\* a filter that collects the compliant recipes newest first
FilterNewestFirst(recipes, user) ==
  LET kept == SelectSeq(recipes, LAMBDA recipe :
                /\ _matches_lifestyle(recipe, user.dietary_restrictions)
                /\ ~ _violates_allergies(recipe, user.allergies))
  IN [k \in 1..Len(kept) |-> kept[Len(kept) + 1 - k]]

filter_recipes(recipes, user) ==
  SelectSeq(recipes, LAMBDA recipe :
    /\ _matches_lifestyle(recipe, user.dietary_restrictions)
    /\ ~ _violates_allergies(recipe, user.allergies))

(***************************************************************************)
(* The answers of the recipe providers and of the embeddings service       *)
(***************************************************************************)

SpoonResults ==
  << [diets |-> <<"vegan", "gluten free">>, id |-> 11,
      title |-> "Chickpea Curry",
      extendedIngredients |-> <<"chickpeas", "rice">>,
      nutrients |-> << [name |-> "Calories", amount |-> Num(400)],
                       [name |-> "Protein", amount |-> Num(20)] >>,
      sourceUrl |-> "https://recipes.example/11"],
     [diets |-> <<>>, id |-> 12,
      title |-> "Chicken Rice Bowl",
      extendedIngredients |-> <<"chicken", "rice">>,
      nutrients |-> << [name |-> "Calories", amount |-> Num(600)],
                       [name |-> "Protein", amount |-> Num(35)] >>,
      sourceUrl |-> "https://recipes.example/12"],
     [diets |-> <<"vegan">>, id |-> 13,
      title |-> "Tofu Scramble",
      extendedIngredients |-> <<"tofu", "spinach">>,
      nutrients |-> << [name |-> "Calories", amount |-> Num(250)] >>,
      sourceUrl |-> "https://recipes.example/13"] >>

\* answers of Spoonacular's complexSearch
SpoonResponses ==
  {[kind |-> "network_error"],
   [kind |-> "http_error"],
   [message |-> None, kind |-> "json", is_dict |-> TRUE, results |-> SpoonResults],
   [message |-> None, kind |-> "json", is_dict |-> TRUE,
    results |-> <<SpoonResults[2]>>]}

\* answers of USDA's foods/search (nutrientName and value are written name and
\* amount, as for Spoonacular)
UsdaResponses ==
  {[kind |-> "http_error"],
   [kind |-> "json", is_dict |-> TRUE,
    foods |-> << [fdcId |-> 21, description |-> "Protein bar",
                  foodNutrients |-> << [name |-> "Energy", amount |-> Num(200)],
                                       [name |-> "Protein", amount |-> Num(15)] >>] >>]}

\* answers of the embeddings service
EmbedOutcomes ==
  {[kind |-> "error"],
   [kind |-> "vectors",
    cosine |-> ("spoon_11" :> 700) @@ ("spoon_12" :> 300) @@ ("spoon_13" :> 500)
               @@ ("usda_21" :> 600)]}

(***************************************************************************)
(* APIDataAgent                                                            *)
(***************************************************************************)

\* s from its first white-space character on
RECURSIVE str_lstrip_to_space(_)
str_lstrip_to_space(s) ==
  IF Len(s) = 0 \/ Head(s) \in SpaceSet THEN s ELSE str_lstrip_to_space(Tail(s))

\* s.split(): the pieces between runs of white space
RECURSIVE str_split_ws(_)
str_split_ws(s) ==
  LET t == str_lstrip(s)
      n == Len(t) - Len(str_lstrip_to_space(t))
  IN IF Len(t) = 0 THEN <<>>
     ELSE <<Slice(t, 1, n)>> \o str_split_ws(Slice(t, n + 1, Len(t)))

\* t.strip(".,!?")
RECURSIVE str_strip_chars(_, _)
str_strip_chars(s, chars) ==
  IF Len(s) > 0 /\ Head(s) \in chars THEN str_strip_chars(Tail(s), chars)
  ELSE IF Len(s) > 0 /\ Ch(s, Len(s)) \in chars
       THEN str_strip_chars(Slice(s, 1, Len(s) - 1), chars)
       ELSE s

token_stop ==
  {"high", "low", "protein", "fibre", "fiber", "fat", "carb", "carbs", "calorie",
   "calories", "healthy", "recipe", "recipes", "meal", "meals", "for", "with",
   "and", "please"}

ExtractQueryTokens(query) ==
  LET parts  == str_split_ws(str_lower(query))
      tokens == [k \in 1..Len(parts) |-> str_strip_chars(parts[k], {".", ",", "!", "?"})]
  IN SelectSeq(tokens, LAMBDA t : t # "" /\ t \notin token_stop)

tokens_table == [q \in Queries |-> ExtractQueryTokens(q)]

_extract_query_tokens(query) ==
  IF query \in Queries THEN tokens_table[query] ELSE ExtractQueryTokens(query)

\* hits and len(tokens): the coverage is hits / len(tokens), and 1.0 (1 of 1) when
\* there is no token
_ingredient_coverage(raw, tokens) ==
  LET name == str_lower(raw.name)
      hits == {k \in 1..Len(tokens) :
                 \/ str_contains(name, tokens[k])
                 \/ \E i \in 1..Len(raw.ingredients) :
                      str_contains(str_lower(raw.ingredients[i]), tokens[k])}
  IN IF Len(tokens) = 0 THEN <<1, 1>> ELSE <<Cardinality(hits), Len(tokens)>>

nutrient_mapping ==
  [k \in {"protein", "fiber", "fibre", "fat", "carb", "carbs", "calorie",
          "calories", "energy"} |->
     CASE k = "protein" -> "protein"
       [] k \in {"fiber", "fibre"} -> "fiber"
       [] k = "fat" -> "fat"
       [] k \in {"carb", "carbs"} -> "carbs"
       [] OTHER -> "calories"]

\* the focus nutrient's value, 0.0 when there is no focus or no value
_nutrient_value(raw, focus_nutrient) ==
  IF ~ Truthy(focus_nutrient) THEN 0
  ELSE LET key == str_lower(focus_nutrient)
       IN IF key \notin DOMAIN nutrient_mapping THEN 0
          ELSE LET val == raw[nutrient_mapping[key]]
               IN IF val = NoneNum THEN 0 ELSE val[1]

\* the scale of the similarities: _cosine in thousandths
SimScale == 1000

\* The combined score 0.4*cov + 0.4*sim + 0.2*log(1 + max(nutr, 0)), without its
\* nutrient term and times 10 * SimScale * len(tokens). The sort compares scores
\* only between candidates of equal nutr_value, whose nutrient terms are equal,
\* and every candidate of one call has the same len(tokens).
CombinedScore(cov, sim) == 4 * cov[1] * SimScale + 4 * sim * cov[2]

\* items[i-1:j] of a list
Slice2(items, i, j) ==
  LET e == IF j > Len(items) THEN Len(items) ELSE j
  IN IF i > e THEN <<>> ELSE SubSeq(items, i, e)

\* the sort keys compared by score first, by nutrient value second
KeyGreaterScoreFirst(a, b) == a[2] > b[2] \/ (a[2] = b[2] /\ a[1] > b[1])

\* the sort key a above the sort key b: tuples compare entry by entry
KeyGreater(a, b) == a[1] > b[1] \/ (a[1] = b[1] /\ a[2] > b[2])

\* list.sort(key=..., reverse=True) on entries [key, item]: stable, entries of
\* equal keys keep their order
RECURSIVE SortDesc(_)
SortDesc(entries) ==
  IF Len(entries) <= 1 THEN entries
  ELSE LET rest == SortDesc(Tail(entries))
           x    == Head(entries)
           \* x goes before the first entry whose key is not above its own
           pos  == {k \in 1..Len(rest) : ~ KeyGreater(rest[k].key, x.key)}
           at   == IF pos = {} THEN Len(rest) + 1 ELSE Min(pos)
       IN Slice2(rest, 1, at - 1) \o <<x>> \o Slice2(rest, at, Len(rest))

\* the macro a Spoonacular nutrient name is read as (the elif chain), or None
SpoonMacroOf(nname) ==
  IF str_contains(nname, "calories") THEN "calories"
  ELSE IF str_contains(nname, "protein") THEN "protein"
  ELSE IF str_contains(nname, "carbohydrate") THEN "carbs"
  ELSE IF str_contains(nname, "fat") THEN "fat"
  ELSE IF str_contains(nname, "fiber") \/ str_contains(nname, "fibre") THEN "fiber"
  ELSE None

\* the macro a USDA nutrient name is read as (the elif chain), or None
UsdaMacroOf(name) ==
  IF str_contains(name, "energy") \/ str_contains(name, "kcal") THEN "calories"
  ELSE IF str_contains(name, "protein") THEN "protein"
  ELSE IF str_contains(name, "carbohydrate") THEN "carbs"
  ELSE IF str_contains(name, "total lipid") \/ str_contains(name, "fat") THEN "fat"
  ELSE IF str_contains(name, "fiber") THEN "fiber"
  ELSE None

\* the elif chain of the provider `source`
MacroOf(source, name) ==
  IF source = "spoonacular" THEN SpoonMacroOf(name) ELSE UsdaMacroOf(name)

\* the nutrient loop: the first numeric entry read as `macro` wins
FirstMacro(nutrients, source, macro) ==
  LET hits == {k \in 1..Len(nutrients) :
                 /\ nutrients[k].amount # NoneNum
                 /\ MacroOf(source, str_lower(nutrients[k].name)) = macro}
  IN IF hits = {} THEN NoneNum ELSE nutrients[Min(hits)].amount

\* one element of data["results"] as the dict _fetch_from_spoonacular builds
SpoonRaw(r) ==
  [diets |-> r.diets,
   allergens |-> <<>>,
   id |-> "spoon_" \o ToString(r.id),
   name |-> IF Truthy(r.title) THEN r.title ELSE "Unknown Recipe",
   ingredients |-> SelectSeq(r.extendedIngredients, LAMBDA n : n # ""),
   source |-> "spoonacular",
   calories |-> FirstMacro(r.nutrients, "spoonacular", "calories"),
   protein |-> FirstMacro(r.nutrients, "spoonacular", "protein"),
   carbs |-> FirstMacro(r.nutrients, "spoonacular", "carbs"),
   fat |-> FirstMacro(r.nutrients, "spoonacular", "fat"),
   fiber |-> FirstMacro(r.nutrients, "spoonacular", "fiber"),
   instructions |-> None,
   source_url |-> r.sourceUrl]

\* _fetch_from_spoonacular against the provider's answer `response`:
\* [raised, items]. requests.get is outside the try; raise_for_status and
\* response.json() are inside it; data.get needs a dict.
FetchFromSpoonacular(spoonacular_key, response) ==
  IF ~ spoonacular_key THEN [items |-> <<>>, raised |-> FALSE]
  ELSE IF response.kind = "network_error" THEN [items |-> <<>>, raised |-> TRUE]
  ELSE IF response.kind \in {"http_error", "bad_json"} THEN [items |-> <<>>, raised |-> FALSE]
  ELSE IF ~ response.is_dict THEN [items |-> <<>>, raised |-> TRUE]
  ELSE IF str_contains(str_lower(StrOrEmpty(response.message)), "daily points limit")
       THEN [items |-> <<>>, raised |-> FALSE]
  ELSE [items |-> [k \in 1..Len(response.results) |-> SpoonRaw(response.results[k])],
        raised |-> FALSE]

spoonacular_table ==
  [key \in BOOLEAN |-> [response \in SpoonResponses |-> FetchFromSpoonacular(key, response)]]

_fetch_from_spoonacular(spoonacular_key, response) ==
  IF response \in SpoonResponses THEN spoonacular_table[spoonacular_key][response]
  ELSE FetchFromSpoonacular(spoonacular_key, response)

\* one element of data["foods"] as the dict _fetch_from_usda builds
UsdaRaw(food) ==
  LET desc == IF Truthy(food.description) THEN food.description ELSE "USDA food"
  IN [diets |-> <<>>,
      allergens |-> <<>>,
      id |-> "usda_" \o ToString(food.fdcId),
      name |-> desc,
      ingredients |-> <<desc>>,
      source |-> "usda",
      calories |-> FirstMacro(food.foodNutrients, "usda", "calories"),
      protein |-> FirstMacro(food.foodNutrients, "usda", "protein"),
      carbs |-> FirstMacro(food.foodNutrients, "usda", "carbs"),
      fat |-> FirstMacro(food.foodNutrients, "usda", "fat"),
      fiber |-> FirstMacro(food.foodNutrients, "usda", "fiber"),
      instructions |-> None,
      source_url |-> "https://fdc.nal.usda.gov/fdc-app.html#/food/" \o ToString(food.fdcId)]

\* _fetch_from_usda against the provider's answer `response`: nothing is caught
FetchFromUsda(usda_key, response) ==
  IF ~ usda_key THEN [items |-> <<>>, raised |-> FALSE]
  ELSE IF response.kind \in {"network_error", "http_error", "bad_json"}
       THEN [items |-> <<>>, raised |-> TRUE]
  ELSE IF ~ response.is_dict THEN [items |-> <<>>, raised |-> TRUE]
  ELSE [items |-> [k \in 1..Len(response.foods) |-> UsdaRaw(response.foods[k])],
        raised |-> FALSE]

usda_foods_table ==
  [key \in BOOLEAN |-> [response \in UsdaResponses |-> FetchFromUsda(key, response)]]

_fetch_from_usda(usda_key, response) ==
  IF response \in UsdaResponses THEN usda_foods_table[usda_key][response]
  ELSE FetchFromUsda(usda_key, response)

\* _cosine(query_vec, recipe_vecs[idx]) in thousandths, for the embeddings the
\* service returned; 0.0 without a client or without vectors
Similarity(embed, raw) ==
  IF embed.kind = "vectors" /\ raw.id \in DOMAIN embed.cosine
  THEN embed.cosine[raw.id] ELSE 0

\* one entry of `scored`: the sort key (nutr_value, combined) and the candidate
ScoredEntry(raw, tokens, focus_nutrient, has_client, embed) ==
  [key |-> <<_nutrient_value(raw, focus_nutrient),
             CombinedScore(_ingredient_coverage(raw, tokens),
                           IF has_client THEN Similarity(embed, raw) ELSE 0)>>,
   item |-> raw]

Scored(raw_results, tokens, focus_nutrient, has_client, embed) ==
  [k \in 1..Len(raw_results) |->
     ScoredEntry(raw_results[k], tokens, focus_nutrient, has_client, embed)]

\* TopItems without the cut
TopItemsUncut(sorted, top_k) ==
  [k \in 1..Len(sorted) |-> sorted[k].item]

\* [r for (_, _, r) in scored[:top_k]]
TopItems(sorted, top_k) ==
  [k \in 1..(IF Len(sorted) < top_k THEN Len(sorted) ELSE top_k) |-> sorted[k].item]

\* what a stage of fetch_recipes hands on: an exception, or its items
Raised == [items |-> <<>>, raised |-> TRUE]

Items(items) == [items |-> items, raised |-> FALSE]

\* _rerank: [raised, items]; the embeddings call is not guarded
_rerank(query, raw_results, focus_nutrient, top_k, has_client, embed) ==
  IF Len(raw_results) = 0 THEN Items(<<>>)
  ELSE IF has_client /\ embed.kind = "error" THEN Raised
  ELSE Items(TopItems(SortDesc(Scored(raw_results, _extract_query_tokens(query),
                                      focus_nutrient, has_client, embed)),
                      top_k))

\* a normalisation that tags every candidate with an allergen
NormaliseWithAllergen(raw) ==
  [k \in DOMAIN raw \ {"source"} |-> IF k = "allergens" THEN <<"peanut">> ELSE raw[k]]

_normalise_recipe(raw) ==
  [diets |-> raw.diets, allergens |-> raw.allergens, id |-> raw.id,
   name |-> raw.name, ingredients |-> raw.ingredients, calories |-> raw.calories,
   protein |-> raw.protein, carbs |-> raw.carbs, fat |-> raw.fat,
   fiber |-> raw.fiber, instructions |-> raw.instructions,
   source_url |-> raw.source_url]

\* the end of fetch_recipes: the reranked candidates as Recipe objects, or the
\* APIDataError that wraps an exception of the body
Normalised(reranked) ==
  IF reranked.raised THEN [recipes |-> <<>>, raised |-> TRUE]
  ELSE [recipes |-> [k \in 1..Len(reranked.items) |-> _normalise_recipe(reranked.items[k])],
        raised |-> FALSE]

\* fetch_recipes once both providers have answered
RerankFetched(query, focus_nutrient, top_k, config, embed, spoon_items, usda) ==
  IF usda.raised THEN Normalised(Raised)
  ELSE Normalised(_rerank(query, spoon_items \o usda.items, focus_nutrient, top_k,
                          config.has_client, embed))

\* fetch_recipes once Spoonacular has answered: USDA is asked when include_usda
FetchUsda(query, focus_nutrient, top_k, include_usda, config, net, spoon) ==
  IF spoon.raised THEN Normalised(Raised)
  ELSE RerankFetched(query, focus_nutrient, top_k, config, net.embed, spoon.items,
                     IF include_usda THEN _fetch_from_usda(config.usda_key, net.usda)
                     ELSE Items(<<>>))

\* fetch_recipes: [raised, recipes]; raised is the APIDataError that wraps any
\* exception of the body. config holds the agent's keys and client, net the
\* answers of the providers and of the embeddings service.
fetch_recipes(query, focus_nutrient, top_k, include_usda, config, net) ==
  FetchUsda(query, focus_nutrient, top_k, include_usda, config, net,
            _fetch_from_spoonacular(config.spoonacular_key, net.spoon))

(***************************************************************************)
(* ObjectiveAgent and IngredientAgent                                      *)
(***************************************************************************)

\* the recipes named by ranked_ids, once each and in that order
RECURSIVE RankedPart(_, _, _)
RankedPart(ranked_ids, recipes, acc) ==
  IF Len(ranked_ids) = 0 THEN acc
  ELSE LET hits == {k \in 1..Len(recipes) : recipes[k].id = Head(ranked_ids)}
           \* id_to_recipe keeps the last recipe of an id
           r    == recipes[CHOOSE k \in hits : \A j \in hits : j <= k]
       IN IF hits # {} /\ r \notin SeqToSet(acc)
          THEN RankedPart(Tail(ranked_ids), recipes, Append(acc, r))
          ELSE RankedPart(Tail(ranked_ids), recipes, acc)

\* ObjectiveAgent.recommend against the ranking LLM's answer: [raised, recipes].
\* The LLM call and json.loads are inside the try; the loop over ranked_ids is not.
objective_recommend(recipes, top_k, llm) ==
  IF llm.kind = "ids_not_a_list" THEN [recipes |-> <<>>, raised |-> TRUE]
  ELSE LET ranked_ids == IF llm.kind = "ids" THEN llm.ranked_ids
                         ELSE [k \in 1..Len(recipes) |-> recipes[k].id]
           ranked     == RankedPart(ranked_ids, recipes, <<>>)
           all        == ranked \o SelectSeq(recipes, LAMBDA r : r \notin SeqToSet(ranked))
       IN [recipes |-> Slice2(all, 1, top_k), raised |-> FALSE]

\* IngredientAgent.recommend (ingredient_agent.py), by the ranking protocol of
\* spec section 6: the ids the LLM returned first, the rest in original order
ingredient_recommend(recipes, top_k, llm) ==
  LET ranked_ids == IF llm.kind = "ids" THEN llm.ranked_ids
                    ELSE [k \in 1..Len(recipes) |-> recipes[k].id]
      ranked     == RankedPart(ranked_ids, recipes, <<>>)
      all        == ranked \o SelectSeq(recipes, LAMBDA r : r \notin SeqToSet(ranked))
  IN Slice2(all, 1, top_k)

(***************************************************************************)
(* ConversationalAgent: analysis, profile update, final ordering           *)
(***************************************************************************)

\* _analyse_message_with_llm for an answer of the intent LLM that does not make
\* it raise: the call raised or its text did not parse (data = default_result),
\* or it parsed to an object. llm.data holds the object's keys whose value is
\* not null: a null value is filled like a missing key.
_analyse_message_with_llm(user, message, llm) ==
  LET default_result ==
        [inventory |-> SetToSeq(user.inventory),
         objective |-> user.objective,
         dietary_restrictions |-> SetToSeq(user.dietary_restrictions),
         allergies |-> SetToSeq(user.allergies),
         likes |-> SetToSeq(user.likes),
         dislikes |-> SetToSeq(user.dislikes),
         query |-> message,
         wants_meal_plan |-> FALSE,
         time_horizon |-> None]
      data == IF llm.kind = "json_object" THEN llm.data ELSE default_result
  IN [key \in DOMAIN default_result \cup DOMAIN data |->
        IF key \in DOMAIN data THEN data[key] ELSE default_result[key]]

\* the fill loop raises TypeError on parsed JSON that is not an object
AnalyseRaises(llm) == llm.kind = "json_other"

\* step 2a of handle_message: list({*existing_inventory, *extra_inventory})
MergeExtraInventory(analysis, extra_inventory) ==
  IF Len(extra_inventory) > 0
  THEN [analysis EXCEPT !.inventory =
          SetToSeq(SeqToSet(analysis.inventory) \cup SeqToSet(extra_inventory))]
  ELSE analysis

\* the profile update with the new inventory added to the stored one
UpdateProfileUnionInventory(user, analysis) ==
  [user EXCEPT
     !.objective = IF Truthy(analysis.objective) THEN analysis.objective ELSE @,
     !.dietary_restrictions = @ \cup SeqToSet(analysis.dietary_restrictions),
     !.allergies = @ \cup SeqToSet(analysis.allergies),
     !.likes = @ \cup SeqToSet(analysis.likes),
     !.dislikes = @ \cup SeqToSet(analysis.dislikes),
     !.inventory = @ \cup SeqToSet(analysis.inventory)]

_update_user_profile_from_analysis(user, analysis) ==
  [user EXCEPT
     !.objective = IF Truthy(analysis.objective) THEN analysis.objective ELSE @,
     !.dietary_restrictions = @ \cup SeqToSet(analysis.dietary_restrictions),
     !.allergies = @ \cup SeqToSet(analysis.allergies),
     !.likes = @ \cup SeqToSet(analysis.likes),
     !.dislikes = @ \cup SeqToSet(analysis.dislikes),
     !.inventory = IF Len(analysis.inventory) > 0
                   THEN SeqToSet(analysis.inventory) ELSE @]

focus_key_map ==
  [k \in {"protein", "fiber", "fibre", "calories", "energy"} |->
     CASE k = "protein" -> "protein"
       [] k \in {"fiber", "fibre"} -> "fiber"
       [] OTHER -> "calories"]

\* getattr(r, field, 0) or 0.0
FieldOrZero(r, field) == IF r[field] = NoneNum THEN 0 ELSE r[field][1]

\* the final list left in the objective reranker's order
KeepRankedOrder(recipes, focus_nutrient) == recipes

_sort_by_focus_nutrient(recipes, focus_nutrient) ==
  IF ~ Truthy(focus_nutrient) \/ Len(recipes) = 0 THEN recipes
  ELSE IF str_lower(focus_nutrient) \notin DOMAIN focus_key_map THEN recipes
  ELSE LET field   == focus_key_map[str_lower(focus_nutrient)]
           entries == [k \in 1..Len(recipes) |->
                         [key |-> <<FieldOrZero(recipes[k], field), 0>>,
                          item |-> recipes[k]]]
           sorted  == SortDesc(entries)
       IN [k \in 1..Len(sorted) |-> sorted[k].item]

\* the condition of step 1a: the message is a detail request for a cached recipe
IsDetailLookup(last_list, idx, message) ==
  /\ Len(last_list) > 0
  /\ idx # NoIndex
  /\ 1 <= idx /\ idx <= Len(last_list)
  /\ _is_detail_request(message)

\* top_k of the three ranking stages
fetch_top_k == 30

ingredient_top_k == 50

objective_top_k == 10


(***************************************************************************)
(* The environment: callers' inputs and the collaborators' answers         *)
(***************************************************************************)

\* the number of handle_message calls of a run
MaxTurns == 2

Usernames == {"alice", "bob"}

\* the calls of handle_message: extra_inventory is None (<<>>) or the
\* ingredients read from a fridge photo
Requests ==
  {[message |-> m, extra_inventory |-> <<>>] : m \in Messages}
  \cup {[message |-> m, extra_inventory |-> <<"eggs">>] :
          m \in {"please suggest something", "2 high protein snacks with chickpeas"}}

\* answers of the intent LLM
LLMResponses ==
  {[kind |-> "no_json"],
   [kind |-> "json_other"],
   [kind |-> "json_object",
    data |-> [dietary_restrictions |-> <<"Vegan">>, allergies |-> <<"peanut">>,
              likes |-> <<"chickpeas">>, dislikes |-> <<"broccoli">>]],
   [kind |-> "json_object",
    data |-> [inventory |-> <<"rice">>, objective |-> "bulking",
              query |-> "rice dinners"]]}

\* a collaborator the call does not reach
NotCalled == [kind |-> "not_called"]

Reverse(q) == [k \in 1..Len(q) |-> q[Len(q) + 1 - k]]

IdsOf(recipes) == [k \in 1..Len(recipes) |-> recipes[k].id]

\* answers of the ranking LLM of IngredientAgent
IngredientRankings(recipes) ==
  {[kind |-> "ids", ranked_ids |-> Reverse(IdsOf(recipes))]}

\* answers of the ranking LLM of ObjectiveAgent
ObjectiveRankings(recipes) ==
  {[kind |-> "ids", ranked_ids |-> <<recipes[Len(recipes)].id>>],
   [kind |-> "ids_not_a_list"]}

\* the deployment: the API keys, the embeddings client, and whether to_excel
\* can write the profile file
Configs ==
  {[spoonacular_key |-> TRUE, usda_key |-> TRUE, has_client |-> TRUE, writable |-> w] :
     w \in BOOLEAN}

(***************************************************************************)
(* State                                                                   *)
(***************************************************************************)

VARIABLES
  df,                    \* MemoryAgent.df: username -> [DietRules, ConvSummary]
  last_recommendations,  \* ConversationalAgent.last_recommendations
  cfg,                   \* the deployment: keys, client, writable profile file
  turns,                 \* handle_message calls so far
  req,                   \* the arguments of the last handle_message call
  resp,                  \* what that call returned, or that it raised
  calls,                 \* the collaborators that call invoked, in order
  outs                   \* what each of them handed back, in the same order

vars == <<df, last_recommendations, cfg, turns, req, resp, calls, outs>>

Init ==
  /\ df = [u \in {} |-> 0]
  /\ last_recommendations = [u \in {} |-> 0]
  /\ cfg \in Configs
  /\ turns = 0
  /\ req = [message |-> "", username |-> None, extra_inventory |-> <<>>]
  /\ resp = [status |-> "none"]
  /\ calls = <<>>
  /\ outs = <<>>

\* one collaborator call of a turn and what it handed back
Call(name, out) == [out |-> out, call |-> name]

CallsOf(trace) == [k \in 1..Len(trace) |-> trace[k].call]

OutsOf(trace) == [k \in 1..Len(trace) |-> trace[k].out]

\* what a call that can raise handed back: its recipes, or the exception
OutOf(result, exception) == IF result.raised THEN exception ELSE result.recipes

(***************************************************************************)
(* ConversationalAgent.handle_message                                      *)
(***************************************************************************)

\* steps 0 and 1: load_user_profile, or a fresh UserProfile when it returns None
LoadOrCreate(frame, username) ==
  IF username \in DOMAIN frame THEN load_user_profile(frame, username)
  ELSE UserProfile(username)

\* self.last_recommendations.get(username, [])
LastList(cache, username) ==
  IF username \in DOMAIN cache THEN cache[username] ELSE <<>>

\* a return that caches the recipes only once the profile file was written
ReturnCachesAfterWrite(user, context, cache, recipes, analysis, trace) ==
  /\ df' = save_user_profile(df, user, context)
  /\ last_recommendations' = IF cfg.writable THEN cache ELSE last_recommendations
  /\ resp' = [analysis |-> analysis, user |-> user, status |-> "returned",
              recipes |-> recipes, context |-> context,
              save_result |-> SaveResult(cfg.writable)]
  /\ calls' = CallsOf(trace) \o <<"save_user_profile">>
  /\ outs' = OutsOf(trace) \o <<SaveResult(cfg.writable)>>

\* the call returns `result` after save_user_profile(user, context)
Return(user, context, cache, recipes, analysis, trace) ==
  /\ df' = save_user_profile(df, user, context)
  /\ last_recommendations' = cache
  /\ resp' = [analysis |-> analysis, user |-> user, status |-> "returned",
              recipes |-> recipes, context |-> context,
              save_result |-> SaveResult(cfg.writable)]
  /\ calls' = CallsOf(trace) \o <<"save_user_profile">>
  /\ outs' = OutsOf(trace) \o <<SaveResult(cfg.writable)>>

\* the call ends with an exception: nothing is saved, nothing is returned
Raise(exception, trace) ==
  /\ df' = df
  /\ last_recommendations' = last_recommendations
  /\ resp' = [status |-> "raised", exception |-> exception]
  /\ calls' = CallsOf(trace)
  /\ outs' = OutsOf(trace)

\* step 0: the clear-inventory command
ClearInventory(username) ==
  Return([LoadOrCreate(df, username) EXCEPT !.inventory = {}],
         [note |-> "INVENTORY_CLEARED"], last_recommendations,
         <<>>, [action |-> "inventory_cleared"],
         <<Call("load_user_profile", LoadOrCreate(df, username))>>)

\* a detail request read with a zero-based index
DetailLookupZeroBased(username, user, last_list, idx) ==
  Return(user,
         [name |-> last_list[IF idx > 1 THEN idx - 1 ELSE Len(last_list)].name, note |-> "DETAIL_REQUEST",
          index |-> idx],
         (username :> last_list) @@ last_recommendations,
         <<last_list[IF idx > 1 THEN idx - 1 ELSE Len(last_list)]>>,
         [mode |-> "detail", detail_index |-> idx,
          detail_recipe_name |->
            last_list[IF idx > 1 THEN idx - 1 ELSE Len(last_list)].name],
         <<Call("load_user_profile", user)>>)

\* step 1a: the detail request
DetailLookup(username, user, last_list, idx) ==
  Return(user,
         [name |-> last_list[idx].name, note |-> "DETAIL_REQUEST", index |-> idx],
         (username :> last_list) @@ last_recommendations,
         <<last_list[idx]>>,
         [mode |-> "detail", detail_index |-> idx,
          detail_recipe_name |-> last_list[idx].name],
         <<Call("load_user_profile", user)>>)

\* the end of a turn with the final list appended to the cached one
FinishAppendsCache(username, user, context, analysis, focus_nutrient, ranked, trace) ==
  IF ranked.raised THEN Raise("TypeError", trace)
  ELSE Return(user, context,
              (username :> (LastList(last_recommendations, username)
                              \o _sort_by_focus_nutrient(ranked.recipes, focus_nutrient)))
                @@ last_recommendations,
              _sort_by_focus_nutrient(ranked.recipes, focus_nutrient), analysis, trace)

\* step 11 and the return: the final order, the save, the cache
Finish(username, user, context, analysis, focus_nutrient, ranked, trace) ==
  IF ranked.raised THEN Raise("TypeError", trace)
  ELSE Return(user, context,
              (username :> _sort_by_focus_nutrient(ranked.recipes, focus_nutrient))
                @@ last_recommendations,
              _sort_by_focus_nutrient(ranked.recipes, focus_nutrient), analysis, trace)

\* step 10: the objective reranker
RankByObjective(username, user, context, analysis, focus_nutrient, ranked, trace) ==
  \E obj \in ObjectiveRankings(ranked) :
    Finish(username, user, context, analysis, focus_nutrient,
           objective_recommend(ranked, objective_top_k, obj),
           trace \o <<Call("objective_agent.recommend",
                            OutOf(objective_recommend(ranked, objective_top_k, obj),
                                  "TypeError"))>>)

\* steps 8 and 9: an empty compliant pool ends the turn, else the ingredient reranker
RankByIngredients(username, user, context, analysis, focus_nutrient, compliant, trace) ==
  IF Len(compliant) = 0
  THEN Return(user, context, (username :> <<>>) @@ last_recommendations,
              <<>>, analysis, trace)
  ELSE \E ing \in IngredientRankings(compliant) :
         RankByObjective(username, user, context, analysis, focus_nutrient,
                         ingredient_recommend(compliant, ingredient_top_k, ing),
                         trace \o <<Call("ingredient_agent.recommend",
                                          ingredient_recommend(compliant, ingredient_top_k,
                                                               ing))>>)

\* the compliance filter run beside the pipeline: the rerankers get the fetched list
FilterBypassed(username, user, context, analysis, focus_nutrient, fetched, trace) ==
  IF fetched.raised
  THEN Raise("APIDataError", trace \o <<Call("fetch_recipes", "APIDataError")>>)
  ELSE RankByIngredients(username, user, context, analysis, focus_nutrient,
                         fetched.recipes,
                         trace \o <<Call("fetch_recipes", fetched.recipes),
                                    Call("filter_recipes",
                                         filter_recipes(fetched.recipes, user))>>)

\* step 7: the compliance filter, unless fetch_recipes raised
Filter(username, user, context, analysis, focus_nutrient, fetched, trace) ==
  IF fetched.raised
  THEN Raise("APIDataError", trace \o <<Call("fetch_recipes", "APIDataError")>>)
  ELSE RankByIngredients(username, user, context, analysis, focus_nutrient,
                         filter_recipes(fetched.recipes, user),
                         trace \o <<Call("fetch_recipes", fetched.recipes),
                                    Call("filter_recipes",
                                         filter_recipes(fetched.recipes, user))>>)

\* the answers fetch_recipes can meet when the providers answer from `spoons`
\* and `usdas`: a service it does not reach is NotCalled
AnswersReached(spoons, usdas, config, include_usda) ==
  {net \in [spoon : spoons, usda : usdas \cup {NotCalled},
            embed : EmbedOutcomes \cup {NotCalled}] :
     /\ (net.usda # NotCalled) <=>
          /\ include_usda /\ config.usda_key
          /\ ~ _fetch_from_spoonacular(config.spoonacular_key, net.spoon).raised
     /\ (net.embed # NotCalled) <=>
          /\ config.has_client
          /\ ~ _fetch_from_spoonacular(config.spoonacular_key, net.spoon).raised
          /\ \/ /\ net.usda = NotCalled
                /\ Len(_fetch_from_spoonacular(config.spoonacular_key, net.spoon).items) > 0
             \/ /\ net.usda # NotCalled
                /\ ~ _fetch_from_usda(config.usda_key, net.usda).raised
                /\ Len(_fetch_from_spoonacular(config.spoonacular_key, net.spoon).items)
                     + Len(_fetch_from_usda(config.usda_key, net.usda).items) > 0}

\* the answers a turn's fetch_recipes can meet
Networks(config, include_usda) ==
  AnswersReached(SpoonResponses, UsdaResponses, config, include_usda)

\* step 6: retrieval
Retrieve(username, user, analysis, query, focus_nutrient, include_usda, trace) ==
  \E net \in Networks(cfg, include_usda) :
    Filter(username, user, [analysis |-> analysis, note |-> "ANALYSIS"], analysis,
           focus_nutrient,
           fetch_recipes(query, focus_nutrient, fetch_top_k, include_usda, cfg, net),
           trace)

\* step 5: the focus nutrient and the USDA flag
Pipeline(username, message, user, analysis, query, trace) ==
  Retrieve(username, user,
           analysis @@ [focus_nutrient |-> _infer_focus_nutrient(message, analysis)],
           query, _infer_focus_nutrient(message, analysis),
           _wants_usda_snacks_or_macros(message, analysis), trace)

\* query formation whose failure also empties the user's cached list
FormQueryClearsCache(username, message, user, analysis, query, trace) ==
  IF ~ Truthy(query)
  THEN Return(user, [note |-> "NO_VALID_QUERY"],
              (username :> <<>>) @@ last_recommendations, <<>>, analysis, trace)
  ELSE Pipeline(username, message, user, analysis, query, trace)

\* steps 3 and 4: the profile update and the query
FormQuery(username, message, user, analysis, query, trace) ==
  IF ~ Truthy(query)
  THEN Return(user, [note |-> "NO_VALID_QUERY"], last_recommendations,
              <<>>, analysis, trace)
  ELSE Pipeline(username, message, user, analysis, query, trace)

UpdateProfile(username, message, user, analysis, trace) ==
  FormQuery(username, message, _update_user_profile_from_analysis(user, analysis),
            analysis, _build_recipe_query(analysis, message), trace)

\* step 2: the analysis of the message, with the side-channel inventory merged in
NormalMode(username, message, extra_inventory, user) ==
  \E llm \in LLMResponses :
    IF AnalyseRaises(llm)
    THEN Raise("TypeError",
               <<Call("load_user_profile", user), Call("intent_llm", "TypeError")>>)
    ELSE UpdateProfile(username, message, user,
                       MergeExtraInventory(_analyse_message_with_llm(user, message, llm),
                                           extra_inventory),
                       <<Call("load_user_profile", user),
                         Call("intent_llm", _analyse_message_with_llm(user, message, llm))>>)

\* steps 1 and 1a: the profile, then the detail branch or the normal mode
LoadedTurn(username, message, extra_inventory, user, last_list, idx) ==
  IF IsDetailLookup(last_list, idx, message)
  THEN DetailLookup(username, user, last_list, idx)
  ELSE NormalMode(username, message, extra_inventory, user)

\* handle_message with the detail branch tried before the clear-inventory command
HandleMessageDetailFirst(username, message, extra_inventory) ==
  /\ turns < MaxTurns
  /\ turns' = turns + 1
  /\ cfg' = cfg
  /\ req' = [message |-> message, username |-> username,
             extra_inventory |-> extra_inventory]
  /\ IF IsDetailLookup(LastList(last_recommendations, username),
                       _extract_index_from_message(message), message)
     THEN DetailLookup(username, LoadOrCreate(df, username),
                       LastList(last_recommendations, username),
                       _extract_index_from_message(message))
     ELSE IF IsClearInventory(message) THEN ClearInventory(username)
     ELSE NormalMode(username, message, extra_inventory, LoadOrCreate(df, username))

\* the body of handle_message
Turn(username, message, extra_inventory) ==
  /\ cfg' = cfg
  /\ req' = [message |-> message, username |-> username,
             extra_inventory |-> extra_inventory]
  /\ IF IsClearInventory(message) THEN ClearInventory(username)
     ELSE LoadedTurn(username, message, extra_inventory, LoadOrCreate(df, username),
                     LastList(last_recommendations, username),
                     _extract_index_from_message(message))

handle_message(username, message, extra_inventory) ==
  /\ turns < MaxTurns
  /\ turns' = turns + 1
  /\ Turn(username, message, extra_inventory)

Next ==
  \E username \in Usernames, request \in Requests :
    handle_message(username, request.message, request.extra_inventory)

Spec == Init /\ [][Next]_vars

\* the turns of one user's session
MaxSessionTurns == 3

\* one user's session: every turn is a call of handle_message for alice
SessionNext ==
  \E request \in Requests :
    /\ turns < MaxSessionTurns
    /\ turns' = turns + 1
    /\ Turn("alice", request.message, request.extra_inventory)

SessionSpec == Init /\ [][SessionNext]_vars

(***************************************************************************)
(* Properties                                                              *)
(***************************************************************************)

\* the collaborators of the retrieval pipeline
RetrievalCalls ==
  {"fetch_recipes", "filter_recipes", "ingredient_agent.recommend",
   "objective_agent.recommend"}

\* the last call returned (it did not raise)
Returned == resp.status = "returned"

\* the last call returned a detail-mode analysis
DetailMode ==
  /\ Returned
  /\ "mode" \in DOMAIN resp.analysis
  /\ resp.analysis.mode = "detail"

\* the four additive sets and the objective of a profile
Preferences(user) ==
  [objective |-> user.objective, dietary_restrictions |-> user.dietary_restrictions,
   allergies |-> user.allergies, likes |-> user.likes, dislikes |-> user.dislikes]

\* the same, as load_user_profile reads them from the stored row
StoredPreferences(frame, username) == Preferences(load_user_profile(frame, username))

\* C1: a message without a clear phrase that resolves to an index N within the
\* user's non-empty cached list L, and holds detail vocabulary, returns exactly
\* <<L[N]>> with an analysis of mode detail and detail_index N; the intent LLM,
\* fetch_recipes, the filter and the rerankers are not invoked in that turn.
C1_DetailLookup ==
  [][ (/\ ~ IsClearInventory(req'.message)
       /\ Len(LastList(last_recommendations, req'.username)) > 0
       /\ _extract_index_from_message(req'.message) >= 1
       /\ _extract_index_from_message(req'.message)
            <= Len(LastList(last_recommendations, req'.username))
       /\ _is_detail_request(req'.message))
      => /\ resp'.status = "returned"
         /\ resp'.recipes =
              <<last_recommendations[req'.username][_extract_index_from_message(req'.message)]>>
         /\ "mode" \in DOMAIN resp'.analysis
         /\ resp'.analysis.mode = "detail"
         /\ resp'.analysis.detail_index = _extract_index_from_message(req'.message)
         /\ SeqToSet(calls') \cap ({"intent_llm"} \cup RetrievalCalls) = {} ]_vars

\* C1's case: a detail request for recipe 2 answered from a cached list of two
\* or more recipes
C1_Witness ==
  /\ DetailMode
  /\ resp.analysis.detail_index = 2
  /\ Len(LastList(last_recommendations, req.username)) >= 2
  /\ resp.recipes = <<last_recommendations[req.username][2]>>

\* C2: a message that resolves to an index outside the cached list (below 1,
\* above its length, or no list cached) does not raise and does not take the
\* detail branch: the turn returns from the normal mode, whose first step is the
\* intent analysis.
C2_OutOfRangeFallsThrough ==
  [][ (/\ ~ IsClearInventory(req'.message)
       /\ _extract_index_from_message(req'.message) # NoIndex
       /\ \/ _extract_index_from_message(req'.message) < 1
          \/ _extract_index_from_message(req'.message)
               > Len(LastList(last_recommendations, req'.username)))
      => /\ resp'.status = "returned"
         /\ ~ ("mode" \in DOMAIN resp'.analysis)
         /\ "intent_llm" \in SeqToSet(calls') ]_vars

\* C3: a message with an inventory-clear phrase takes the reset branch first,
\* whatever else it matches: the inventory of the returned and of the stored
\* profile is empty, the profile is saved, no recipe is returned, the analysis
\* is the tag inventory_cleared, and the intent LLM, fetch_recipes, the filter
\* and the rerankers are not invoked.
C3_ResetFirst ==
  [][ IsClearInventory(req'.message)
      => /\ resp'.status = "returned"
         /\ resp'.user.inventory = {}
         /\ resp'.recipes = <<>>
         /\ resp'.analysis = [action |-> "inventory_cleared"]
         /\ calls'[Len(calls')] = "save_user_profile"
         /\ load_user_profile(df', req'.username).inventory = {}
         /\ df'[req'.username].ConvSummary.ctx = [note |-> "INVENTORY_CLEARED"]
         /\ SeqToSet(calls') \cap ({"intent_llm"} \cup RetrievalCalls) = {} ]_vars

\* C3's case: a clear command that also is a detail request for a cached recipe
C3_Witness ==
  /\ Returned
  /\ resp.analysis = [action |-> "inventory_cleared"]
  /\ IsClearInventory(req.message)
  /\ IsDetailLookup(LastList(last_recommendations, req.username),
                    _extract_index_from_message(req.message), req.message)

\* C4: an inventory-reset turn leaves the user's dietary_restrictions,
\* allergies, likes, dislikes and objective, in the returned profile and in the
\* stored one, as they were after the user's previous turn.
C4_ResetFrame ==
  [][ (/\ IsClearInventory(req'.message)
       /\ req.username = req'.username
       /\ resp.status = "returned")
      => /\ resp'.status = "returned"
         /\ Preferences(resp'.user) = Preferences(resp.user)
         /\ StoredPreferences(df', req'.username) = StoredPreferences(df, req'.username) ]_vars

\* C5: over consecutive turns of one username, each of the sets
\* dietary_restrictions, allergies, likes and dislikes of the returned profile
\* contains the set of the profile the previous turn returned.
C5_MonotonicSets ==
  [][ (/\ req.username = req'.username
       /\ resp.status = "returned"
       /\ resp'.status = "returned")
      => /\ resp.user.dietary_restrictions \subseteq resp'.user.dietary_restrictions
         /\ resp.user.allergies \subseteq resp'.user.allergies
         /\ resp.user.likes \subseteq resp'.user.likes
         /\ resp.user.dislikes \subseteq resp'.user.dislikes ]_vars

\* C6: a normal-mode turn whose analysis inventory, united with the
\* extra_inventory hint, is not empty leaves exactly that union as the profile
\* inventory: no other item of the stored inventory stays.
C6_InventoryReplace ==
  [][ (/\ resp'.status = "returned"
       /\ "intent_llm" \in SeqToSet(calls'))
      => \E llm \in LLMResponses :
           /\ ~ AnalyseRaises(llm)
           /\ [key \in DOMAIN resp'.analysis \ {"focus_nutrient"} |-> resp'.analysis[key]]
                = MergeExtraInventory(
                    _analyse_message_with_llm(LoadOrCreate(df, req'.username),
                                              req'.message, llm),
                    req'.extra_inventory)
           /\ (SeqToSet(_analyse_message_with_llm(LoadOrCreate(df, req'.username),
                                                  req'.message, llm).inventory)
                 \cup SeqToSet(req'.extra_inventory) # {})
              => resp'.user.inventory
                   = SeqToSet(_analyse_message_with_llm(LoadOrCreate(df, req'.username),
                                                        req'.message, llm).inventory)
                       \cup SeqToSet(req'.extra_inventory) ]_vars

\* C6's case: a normal-mode turn with the hint eggs whose analysis inventory is rice
\* ends with the profile inventory rice and eggs
C6_Witness ==
  /\ Returned
  /\ "intent_llm" \in SeqToSet(calls)
  /\ req.extra_inventory = <<"eggs">>
  /\ resp.user.inventory = {"rice", "eggs"}
  /\ resp.user.objective = "bulking"

\* C7: every turn that has ended invoked save_user_profile as its last step.
C7_SavedOnEveryBranch ==
  turns > 0 => (Len(calls) > 0 /\ calls[Len(calls)] = "save_user_profile")

\* C8: whatever the collaborators answer, handle_message returns its tuple and
\* never raises.
C8_NeverRaises == resp.status # "raised"

\* C9: fetch_recipes returns without raising whatever the providers answer: no
\* turn ends with the APIDataError of fetch_recipes.
C9_FetchNeverRaises ==
  [][ "fetch_recipes" \in SeqToSet(calls')
      => ~ (resp'.status = "raised" /\ resp'.exception = "APIDataError") ]_vars

\* C10: a normal-mode turn with an empty analysis inventory and fewer than two
\* keywords left in the message returns no recipe, without fetch_recipes, the
\* filter or a reranker, and saves the profile with the note NO_VALID_QUERY; a
\* turn whose pool the filter emptied saves another note.
C10_QueryFormationFailure ==
  [][ /\ (/\ resp'.status = "returned"
          /\ "intent_llm" \in SeqToSet(calls')
          /\ Len(resp'.analysis.inventory) = 0
          /\ Len(Keywords(req'.message)) < 2)
         => /\ resp'.recipes = <<>>
            /\ SeqToSet(calls') \cap RetrievalCalls = {}
            /\ calls'[Len(calls')] = "save_user_profile"
            /\ df'[req'.username].ConvSummary.ctx = [note |-> "NO_VALID_QUERY"]
      /\ (/\ resp'.status = "returned"
          /\ "filter_recipes" \in SeqToSet(calls'))
         => df'[req'.username].ConvSummary.ctx.note # "NO_VALID_QUERY" ]_vars

\* C10's case: "please suggest something" with nothing in the inventory
C10_Witness ==
  /\ Returned
  /\ req.message = "please suggest something"
  /\ resp.context = [note |-> "NO_VALID_QUERY"]
  /\ resp.user.inventory = {}
  /\ resp.recipes = <<>>

\* what the collaborator `name` handed back in the last call
StageOut(name) == outs[CHOOSE k \in 1..Len(calls) : calls[k] = name]

\* the last call returned after the objective reranker ran
Ranked == Returned /\ "objective_agent.recommend" \in SeqToSet(calls)

\* the values of `nutrient` along a list, a missing value read as 0
NutrientValues(recipes, nutrient) ==
  [k \in 1..Len(recipes) |->
     IF recipes[k][nutrient] = NoneNum THEN 0 ELSE recipes[k][nutrient][1]]

NonIncreasing(values) ==
  \A k \in 1..(Len(values) - 1) : values[k] >= values[k + 1]

\* C11: a normal-mode turn that inferred a focus nutrient returns the objective
\* reranker's recipes in non-increasing order of that nutrient, a missing value
\* counting as 0; a turn that inferred none returns the objective reranker's
\* list unchanged.
C11_FocusOrder ==
  Ranked =>
    IF Truthy(resp.analysis.focus_nutrient)
    THEN /\ NonIncreasing(NutrientValues(resp.recipes, resp.analysis.focus_nutrient))
         /\ SeqToSet(resp.recipes) = SeqToSet(StageOut("objective_agent.recommend"))
         /\ Len(resp.recipes) = Len(StageOut("objective_agent.recommend"))
    ELSE resp.recipes = StageOut("objective_agent.recommend")

\* C11's case: protein is the focus, the objective reranker's order is not the
\* protein order, and a recipe without a protein value comes out last
C11_Witness ==
  /\ Ranked
  /\ resp.analysis.focus_nutrient = "protein"
  /\ Len(resp.recipes) >= 3
  /\ resp.recipes # StageOut("objective_agent.recommend")
  /\ resp.recipes[Len(resp.recipes)].protein = NoneNum
  /\ resp.recipes[1].protein # NoneNum

\* C12: a normal-mode turn that produced a ranked list leaves, as the user's
\* cached list, exactly the list it returned, in the same order; a recipe of the
\* previously cached list is in the new cache only if the turn returned it.
C12_CacheReplaced ==
  [][ Ranked' =>
        /\ req'.username \in DOMAIN last_recommendations'
        /\ last_recommendations'[req'.username] = resp'.recipes
        /\ \A r \in SeqToSet(LastList(last_recommendations, req'.username)) :
             r \in SeqToSet(last_recommendations'[req'.username])
               => r \in SeqToSet(resp'.recipes) ]_vars

\* C12's case: the second turn of a run ranked one recipe, which is now the
\* whole cached list of its user
C12_Witness ==
  /\ turns = 2
  /\ Ranked
  /\ Len(resp.recipes) = 1
  /\ last_recommendations[req.username] = resp.recipes

\* C13: a turn changes the cached lists only when it is a normal-mode turn that
\* returned after retrieval and the compliance filter; an inventory-reset turn,
\* a detail-lookup turn and a turn that ended on query-formation failure leave
\* the user's cached list as it was.
C13_CacheFrame ==
  [][ /\ last_recommendations' # last_recommendations
           => Returned' /\ "filter_recipes" \in SeqToSet(calls')
      /\ (\/ IsClearInventory(req'.message)
          \/ DetailMode'
          \/ (Returned' /\ resp'.context = [note |-> "NO_VALID_QUERY"]))
           => LastList(last_recommendations', req'.username)
                = LastList(last_recommendations, req'.username) ]_vars

\* C13's case: a turn ended on query-formation failure for a user whose cached
\* list holds recipes of an earlier turn
C13_Witness ==
  /\ Returned
  /\ resp.context = [note |-> "NO_VALID_QUERY"]
  /\ Len(LastList(last_recommendations, req.username)) >= 2

\* C14: a turn for one username leaves the cached list and the stored row of
\* every other username as they were, whichever branch it takes.
C14_UserIsolation ==
  [][ \A other \in Usernames \ {req'.username} :
        /\ (other \in DOMAIN last_recommendations')
             <=> (other \in DOMAIN last_recommendations)
        /\ LastList(last_recommendations', other)
             = LastList(last_recommendations, other)
        /\ (other \in DOMAIN df') <=> (other \in DOMAIN df)
        /\ other \in DOMAIN df => df'[other] = df[other] ]_vars

\* C14's case: alice's turn returned recipes while bob has a stored row and a
\* cached list from his own turn
C14_Witness ==
  /\ Ranked
  /\ req.username = "alice"
  /\ "bob" \in DOMAIN df
  /\ Len(LastList(last_recommendations, "bob")) >= 2
  /\ LastList(last_recommendations, "alice") # LastList(last_recommendations, "bob")
  /\ df["bob"] # df["alice"]

(***************************************************************************)
(* The agents called directly: one call of one method per run, its         *)
(* arguments in req and its result in resp                                 *)
(***************************************************************************)

\* the longest candidate list of a direct call
MaxCandidates == 3

\* a Recipe with the fields the agents read
Dish(id, diets, allergens, protein, calories) ==
  [diets |-> diets, allergens |-> allergens, id |-> id, name |-> id,
   ingredients |-> <<>>, calories |-> calories, protein |-> protein,
   carbs |-> NoneNum, fat |-> NoneNum, fiber |-> NoneNum,
   instructions |-> None, source_url |-> None]

Dishes ==
  {Dish("d1", <<"vegan", "gluten free">>, <<>>, Num(5), Num(300)),
   Dish("d2", <<>>, <<"Peanut">>, NoneNum, Num(500)),
   Dish("d3", <<"Vegan">>, <<"dairy">>, Num(20), NoneNum),
   Dish("d4", <<"vegetarian">>, <<>>, Num(12), Num(300))}

\* the candidate lists: every list of at most MaxCandidates dishes, repeats included
CandidateLists ==
  UNION {[1..n -> Dishes] : n \in 0..MaxCandidates}

\* the profiles the filter reads
Profiles ==
  {[UserProfile("carol") EXCEPT !.dietary_restrictions = r, !.allergies = a] :
     r \in {{}, {"Vegan"}, {"gluten-free"}, {"vegan", "low carb"}},
     a \in {{}, {"peanut"}, {" Dairy "}}}

\* one direct call: its arguments, its result, and the calls it made in turn
DirectCall(name, arguments, result, inner) ==
  /\ turns = 0
  /\ turns' = 1
  /\ req' = arguments
  /\ resp' = result
  /\ calls' = <<name>> \o CallsOf(inner)
  /\ outs' = <<result>> \o OutsOf(inner)
  /\ UNCHANGED <<df, last_recommendations, cfg>>

\* DietaryRestrictionAgent.filter_recipes(recipes, user)
FilterCall ==
  \E recipes \in CandidateLists, user \in Profiles :
    DirectCall("filter_recipes", [user |-> user, recipes |-> recipes],
               [status |-> "returned", recipes |-> filter_recipes(recipes, user)],
               <<>>)

\* the candidate lists without a repeated recipe
DistinctLists ==
  {l \in CandidateLists : \A i, j \in 1..Len(l) : l[i] = l[j] => i = j}

\* answers of the ranking LLM to ObjectiveAgent: a complete ranking, a ranking
\* of the last recipe only, one that names an unknown id and repeats one, output
\* that does not parse, and an object whose ranked_ids is null or a number
RankingAnswers(recipes) ==
  {[kind |-> "ids", ranked_ids |-> Reverse(IdsOf(recipes))],
   [kind |-> "ids", ranked_ids |-> Slice2(Reverse(IdsOf(recipes)), 1, 1)],
   [kind |-> "ids",
    ranked_ids |-> <<"d9">> \o Slice2(IdsOf(recipes), 2, 2) \o Slice2(IdsOf(recipes), 2, 2)],
   [kind |-> "no_json"],
   [kind |-> "ids_not_a_list"]}

\* what the caller of a method sees: its recipes, or the exception it raised
Outcome(result, exception) ==
  IF result.raised THEN [status |-> "raised", exception |-> exception]
  ELSE [status |-> "returned", recipes |-> result.recipes]

\* ObjectiveAgent.recommend(recipes, user, top_k) against the ranking LLM's answer
RecommendCall ==
  \E recipes \in DistinctLists, top_k \in {2, objective_top_k} :
    \E llm \in RankingAnswers(recipes) :
      DirectCall("objective_agent.recommend",
                 [recipes |-> recipes, top_k |-> top_k, llm |-> llm],
                 Outcome(objective_recommend(recipes, top_k, llm), "TypeError"),
                 <<>>)

\* the raw candidates the providers of the model hand out
RawCandidates ==
  UNION {SeqToSet(_fetch_from_spoonacular(TRUE, r).items) : r \in SpoonResponses}
    \cup UNION {SeqToSet(_fetch_from_usda(TRUE, r).items) : r \in UsdaResponses}

RawLists == UNION {[1..n -> RawCandidates] : n \in 0..MaxCandidates}

\* the queries and the cuts of the direct calls
DirectQueries == {"rice", "high protein snacks chickpeas"}

Cuts == 0..MaxCandidates

\* the answers _rerank can meet: it asks for embeddings when there is a candidate
\* and a client
EmbedAnswers(raw_results, has_client) ==
  IF Len(raw_results) > 0 /\ has_client THEN EmbedOutcomes ELSE {NotCalled}

\* the embedding request behind an answer
EmbedCalls(embed) ==
  IF embed = NotCalled THEN <<>> ELSE <<Call("_embed", embed)>>

\* what _rerank gives its caller: the kept candidates, or the exception
Kept(result, exception) ==
  IF result.raised THEN [status |-> "raised", exception |-> exception]
  ELSE [status |-> "returned", recipes |-> result.items]

RerankCall ==
  \E query \in DirectQueries, raw_results \in RawLists, top_k \in Cuts :
    \E focus_nutrient \in {None, "protein"}, has_client \in BOOLEAN :
      \E embed \in EmbedAnswers(raw_results, has_client) :
        DirectCall("_rerank",
                   [query |-> query, focus_nutrient |-> focus_nutrient,
                    has_client |-> has_client, raw_results |-> raw_results,
                    top_k |-> top_k],
                   Kept(_rerank(query, raw_results, focus_nutrient, top_k,
                                has_client, embed),
                        "APIError"),
                   EmbedCalls(embed))

\* provider answers without a candidate
SpoonEmpty == [message |-> None, kind |-> "json", is_dict |-> TRUE, results |-> <<>>]

UsdaEmpty == [kind |-> "json", is_dict |-> TRUE, foods |-> <<>>]

\* the agents of the direct fetch_recipes calls: with and without each key and
\* the embeddings client
FetchConfigs ==
  [spoonacular_key : BOOLEAN, usda_key : BOOLEAN, has_client : BOOLEAN,
   writable : {TRUE}]

\* the calls fetch_recipes makes: Spoonacular, USDA when include_usda and
\* Spoonacular did not raise, the embeddings when _rerank asks for them
ProviderCalls(include_usda, config, net) ==
  LET spoon == _fetch_from_spoonacular(config.spoonacular_key, net.spoon)
  IN <<Call("_fetch_from_spoonacular", spoon)>>
       \o (IF include_usda /\ ~ spoon.raised
           THEN <<Call("_fetch_from_usda", _fetch_from_usda(config.usda_key, net.usda))>>
           ELSE <<>>)
       \o EmbedCalls(net.embed)

FetchCall ==
  \E query \in DirectQueries, top_k \in Cuts, include_usda \in BOOLEAN :
    \E config \in FetchConfigs :
      \E net \in AnswersReached(SpoonResponses \cup {SpoonEmpty},
                                UsdaResponses \cup {UsdaEmpty}, config, include_usda) :
        DirectCall("fetch_recipes",
                   [query |-> query, top_k |-> top_k, config |-> config,
                    include_usda |-> include_usda, net |-> net],
                   Outcome(fetch_recipes(query, None, top_k, include_usda, config, net),
                           "APIDataError"),
                   ProviderCalls(include_usda, config, net))

\* messages whose index patterns compete, and messages without one
IndexMessages ==
  {"number 2 or the 3rd one", "the 3rd or the first", "second one of 4",
   "the fifth and the second", "show 5", "Number  12 then 1st", "Third 1",
   "hello there", "recipes of 1995", "item2", "number one", "4th 2nd"}

ExtractIndexCall ==
  \E message \in IndexMessages :
    DirectCall("_extract_index_from_message", [message |-> message],
               [status |-> "returned", index |-> _extract_index_from_message(message)],
               <<>>)

\* the analyses and messages of the direct _build_recipe_query calls
QueryAnalyses ==
  [inventory : {<<>>, <<"rice">>, <<" rice ", "eggs">>, <<" ">>, <<"", "eggs">>},
   query : {None, "pasta dinner"}]

QueryMessages ==
  {"2 high protein snacks with chickpeas", "please suggest something",
   "I am trying to bulk", "Recipe 7!",
   "hot red bean soup or rye toast now"}

BuildQueryCall ==
  \E analysis \in QueryAnalyses, message \in QueryMessages :
    DirectCall("_build_recipe_query", [message |-> message, analysis |-> analysis],
               [status |-> "returned", query |-> _build_recipe_query(analysis, message)],
               <<>>)

\* the messages and objectives of the direct _infer_focus_nutrient calls
FocusMessages ==
  {"high fibre and protein snacks", "Protein for weight loss", "low calorie dinner",
   "dinner ideas", "more FIBER please"}

FocusObjectives ==
  {None, "bulking", "Cutting", "muscle gain", "weight loss", "maintenance", "more fiber"}

InferFocusCall ==
  \E message \in FocusMessages, objective \in FocusObjectives :
    DirectCall("_infer_focus_nutrient",
               [message |-> message, analysis |-> [objective |-> objective]],
               [status |-> "returned",
                focus_nutrient |-> _infer_focus_nutrient(message, [objective |-> objective])],
               <<>>)

\* the candidates and restriction sets of the direct gate calls: diet tags and
\* restrictions in canonical and in synonym spellings
GateDishes ==
  Dishes \cup {Dish("d5", <<"gluten-free">>, <<"peanuts">>, NoneNum, NoneNum),
               Dish("d6", <<"Pescatarian", "celiac">>, <<"Tree Nut">>, NoneNum, NoneNum),
               Dish("d7", <<"pescetarian", "strict vegan">>, <<>>, NoneNum, NoneNum)}

RestrictionSets ==
  {{}, {"Vegan"}, {" Gluten-Free "}, {"celiac"}, {"gluten free"}, {"pescatarian"},
   {"pescetarian"}, {"strict vegan"}, {"low carb"}, {"vegan", "keto"},
   {"gluten free", "vegetarian"}, {" "}}

LifestyleCall ==
  \E recipe \in GateDishes, restrictions \in RestrictionSets :
    DirectCall("_matches_lifestyle", [restrictions |-> restrictions, recipe |-> recipe],
               [status |-> "returned",
                passes |-> _matches_lifestyle(recipe, restrictions)],
               <<>>)

\* the allergy sets of the direct gate calls: whole tags, parts of tags, tags
\* with more around them, blanks
AllergySets ==
  {{}, {"peanut"}, {" Dairy "}, {"nut"}, {"tree nut allergy"}, {"", " "},
   {"shellfish", "PEANUTS"}}

AllergyCall ==
  \E recipe \in GateDishes, allergies \in AllergySets :
    DirectCall("_violates_allergies", [allergies |-> allergies, recipe |-> recipe],
               [status |-> "returned",
                violates |-> _violates_allergies(recipe, allergies)],
               <<>>)

\* the profiles of the direct save-then-load calls
SavedProfiles ==
  Profiles \cup {[UserProfile("carol") EXCEPT !.objective = "bulking",
                                              !.likes = {"chickpeas"},
                                              !.dislikes = {"broccoli"},
                                              !.inventory = {"rice", "eggs"}]}

\* save_user_profile(user, ctx) on a fresh agent, then load_user_profile of the
\* same username
SaveLoadCall ==
  \E user \in SavedProfiles, ctx \in {None, "NO_VALID_QUERY"} :
    DirectCall("save_user_profile",
               [user |-> user, context |-> ctx],
               [user |-> load_user_profile(save_user_profile(df, user, ctx),
                                           user.user_id),
                status |-> "returned"],
               <<Call("load_user_profile",
                      load_user_profile(save_user_profile(df, user, ctx), user.user_id))>>)

AgentNext ==
  \/ FilterCall
  \/ RecommendCall
  \/ RerankCall
  \/ FetchCall
  \/ ExtractIndexCall
  \/ BuildQueryCall
  \/ InferFocusCall
  \/ LifestyleCall
  \/ AllergyCall
  \/ SaveLoadCall

AgentSpec == Init /\ [][AgentNext]_vars

\* `part` can be read off `whole` from left to right, skipping elements
RECURSIVE IsSubsequence(_, _)
IsSubsequence(part, whole) ==
  IF Len(part) = 0 THEN TRUE
  ELSE IF Len(whole) = 0 THEN FALSE
  ELSE IF Head(part) = Head(whole) THEN IsSubsequence(Tail(part), Tail(whole))
  ELSE IsSubsequence(part, Tail(whole))

\* C15: for every candidate list and profile, filter_recipes returns a
\* subsequence of its input: only input recipes, none more often than in the
\* input, the kept ones in their input order.
C15_FilterSubsequence ==
  calls = <<"filter_recipes">> => IsSubsequence(resp.recipes, req.recipes)

\* C15's case: the filter dropped the middle recipe of three and kept the
\* other two, a repeated one, in place
C15_Witness ==
  /\ calls = <<"filter_recipes">>
  /\ Len(req.recipes) = 3
  /\ req.recipes[1] = req.recipes[3]
  /\ resp.recipes = <<req.recipes[1], req.recipes[3]>>

\* the ids of `ids` that name a recipe of `known`, each at its first place
RECURSIVE NamedOnce(_, _, _)
NamedOnce(ids, known, acc) ==
  IF Len(ids) = 0 THEN acc
  ELSE IF Head(ids) \in known /\ Head(ids) \notin SeqToSet(acc)
       THEN NamedOnce(Tail(ids), known, Append(acc, Head(ids)))
       ELSE NamedOnce(Tail(ids), known, acc)

\* the order the ranking protocol asks for: the named ids, then the others in
\* input order
ProtocolOrder(recipes, llm) ==
  LET named == IF llm.kind = "ids"
               THEN NamedOnce(llm.ranked_ids, SeqToSet(IdsOf(recipes)), <<>>)
               ELSE <<>>
  IN named \o SelectSeq(IdsOf(recipes), LAMBDA id : id \notin SeqToSet(named))

\* C16: whatever the ranking LLM answers, ObjectiveAgent.recommend returns every
\* input recipe exactly once: the recipes named in ranked_ids first, in that
\* order, then the recipes not named, in input order.
C16_RankingProtocol ==
  calls = <<"objective_agent.recommend">> =>
    /\ resp.status = "returned"
    /\ IdsOf(resp.recipes) = ProtocolOrder(req.recipes, req.llm)

\* the default analysis of a turn: the profile's values carried forward, the raw
\* message as the query
DefaultAnalysis(user, message) ==
  [inventory |-> SetToSeq(user.inventory),
   objective |-> user.objective,
   dietary_restrictions |-> SetToSeq(user.dietary_restrictions),
   allergies |-> SetToSeq(user.allergies),
   likes |-> SetToSeq(user.likes),
   dislikes |-> SetToSeq(user.dislikes),
   query |-> message,
   wants_meal_plan |-> FALSE,
   time_horizon |-> None]

\* the analyses C17 allows for a turn: the default, or a parsed answer with its
\* missing and null keys filled from the default
FallbackAnalyses(user, message) ==
  {DefaultAnalysis(user, message)}
  \cup {llm.data @@ DefaultAnalysis(user, message) :
          llm \in {l \in LLMResponses : l.kind = "json_object"}}

\* C17: in a normal-mode turn the analysis is the default analysis when the
\* intent LLM raised or its output did not parse, and the parsed answer filled
\* from the default otherwise; the turn goes on to the profile update and the
\* query formation.
C17_IntentFallback ==
  [][ "intent_llm" \in SeqToSet(calls') =>
        /\ calls'[Len(calls')] # "intent_llm"
        /\ outs'[2] \in FallbackAnalyses(LoadOrCreate(df, req'.username), req'.message)
    ]_vars

\* C18: when the profile file cannot be written, save_user_profile hands back
\* a result of status error and the turn still returns: that result is the
\* fourth element of what handle_message returns, and a turn that ranked recipes
\* returns them and caches them for the user.
C18_SaveFailureNonfatal ==
  (~ cfg.writable /\ "save_user_profile" \in SeqToSet(calls)) =>
    /\ Returned
    /\ StageOut("save_user_profile") = [status |-> "error"]
    /\ resp.save_result = StageOut("save_user_profile")
    /\ Ranked =>
         /\ resp.recipes = _sort_by_focus_nutrient(StageOut("objective_agent.recommend"),
                                                   resp.analysis.focus_nutrient)
         /\ LastList(last_recommendations, req.username) = resp.recipes

\* C18's case: the save failed in a turn that ranked several recipes
C18_Witness ==
  /\ ~ cfg.writable
  /\ Ranked
  /\ resp.save_result.status = "error"
  /\ Len(resp.recipes) >= 2
  /\ last_recommendations[req.username] = resp.recipes

\* the direct call of `name` has been made
Called(name) == Len(calls) > 0 /\ calls[1] = name

\* how often x occurs in the list q
Occurrences(x, q) == Cardinality({k \in 1..Len(q) : q[k] = x})

\* the providers fetch_recipes asked, each of which handed back no candidate
NoCandidate ==
  \A k \in 2..Len(calls) :
    calls[k] \in {"_fetch_from_spoonacular", "_fetch_from_usda"} => outs[k] = Items(<<>>)

\* C19: _rerank returns at most top_k items, each an element of its input and
\* none more often than in the input; for an empty candidate list it returns an
\* empty list and asks for no embedding; fetch_recipes returns an empty list,
\* and asks for no embedding, when every provider handed back zero candidates.
C19_ScorerBound ==
  /\ (Called("_rerank") /\ resp.status = "returned") =>
       /\ Len(resp.recipes) <= req.top_k
       /\ \A k \in 1..Len(resp.recipes) :
            Occurrences(resp.recipes[k], resp.recipes)
              <= Occurrences(resp.recipes[k], req.raw_results)
  /\ (Called("_rerank") /\ req.raw_results = <<>>) =>
       /\ resp = [status |-> "returned", recipes |-> <<>>]
       /\ calls = <<"_rerank">>
  /\ (Called("fetch_recipes") /\ NoCandidate) =>
       /\ resp = [status |-> "returned", recipes |-> <<>>]
       /\ "_embed" \notin SeqToSet(calls)

\* C19's case: three candidates, one of them twice, scored with embeddings and
\* cut to the two best
C19_Witness ==
  /\ Called("_rerank")
  /\ calls = <<"_rerank", "_embed">>
  /\ Len(req.raw_results) = 3
  /\ req.raw_results[1] = req.raw_results[3]
  /\ req.raw_results[1] # req.raw_results[2]
  /\ req.top_k = 2
  /\ resp.status = "returned"
  /\ Len(resp.recipes) = 2

\* the collaborators of a normal-mode turn that runs every stage, and of one
\* whose compliant pool is empty
FullPipeline ==
  <<"load_user_profile", "intent_llm", "fetch_recipes", "filter_recipes",
    "ingredient_agent.recommend", "objective_agent.recommend", "save_user_profile">>

EmptyPoolTurn ==
  <<"load_user_profile", "intent_llm", "fetch_recipes", "filter_recipes",
    "save_user_profile">>

IsPrefix(p, q) == Len(p) <= Len(q) /\ SubSeq(q, 1, Len(p)) = p

\* the profile the stages of the step's turn work with: the loaded one, updated
\* from the analysis with the side-channel inventory merged in
TurnUser ==
  _update_user_profile_from_analysis(outs'[1],
                                     MergeExtraInventory(outs'[2], req'.extra_inventory))

\* the step's turn ran stage k of the full pipeline
Ran(k) == Len(calls') >= k /\ calls'[k] = FullPipeline[k]

\* C20: a normal-mode turn that reaches retrieval runs retrieval (cut to
\* fetch_top_k), the compliance filter, the preference reranker, the objective
\* reranker and the focus-nutrient sort in this order, each on the output of the
\* stage before it; when the filter returns an empty pool no reranker is called
\* and the turn returns an empty result after saving the profile and the analysis.
C20_PipelineOrder ==
  [][Ran(3) =>
       /\ IsPrefix(calls', FullPipeline) \/ calls' = EmptyPoolTurn
       /\ Ran(4) =>
            /\ Len(outs'[3]) <= fetch_top_k
            /\ outs'[4] = filter_recipes(outs'[3], TurnUser)
            /\ (outs'[4] = <<>>) <=> (calls' = EmptyPoolTurn)
       /\ calls' = EmptyPoolTurn =>
            /\ resp'.status = "returned"
            /\ resp'.recipes = <<>>
            /\ resp'.user = TurnUser
            /\ resp'.context = [analysis |-> resp'.analysis, note |-> "ANALYSIS"]
            /\ df' = save_user_profile(df, TurnUser, resp'.context)
       /\ Ran(5) =>
            \E ing \in IngredientRankings(outs'[4]) :
              outs'[5] = ingredient_recommend(outs'[4], ingredient_top_k, ing)
       /\ (Ran(6) /\ resp'.status = "raised") =>
            \E obj \in ObjectiveRankings(outs'[5]) :
              objective_recommend(outs'[5], objective_top_k, obj).raised
       /\ Ran(7) =>
            /\ \E obj \in ObjectiveRankings(outs'[5]) :
                 objective_recommend(outs'[5], objective_top_k, obj)
                   = [recipes |-> outs'[6], raised |-> FALSE]
            /\ resp'.recipes = _sort_by_focus_nutrient(outs'[6],
                                                       resp'.analysis.focus_nutrient)]_vars

\* C20's case: a turn that ran every stage, where the filter dropped a candidate
\* and both rerankers changed the order they were given
C20_Witness ==
  /\ calls = FullPipeline
  /\ Returned
  /\ Len(outs[4]) < Len(outs[3])
  /\ Len(outs[4]) >= 2
  /\ outs[5] # outs[4]
  /\ outs[6] # outs[5]
  /\ Len(resp.recipes) = Len(outs[6])

\* C21: _extract_index_from_message resolves by the precedence "number N", then
\* Nst/Nnd/Nrd/Nth, then a spelled ordinal first..fifth, then a bare digit 1-9:
\* the first class that matches decides, whatever a later class names, and a
\* message matching none resolves to no index.
C21_IndexPrecedence ==
  Called("_extract_index_from_message") =>
    LET msg     == str_lower(req.message)
        number  == FirstMatch(msg, "number")
        ordinal == FirstMatch(msg, "ordinal")
        word    == WordMatch(msg)
        digit   == FirstMatch(msg, "digit")
    IN /\ number # NoIndex => resp.index = number
       /\ (number = NoIndex /\ ordinal # NoIndex) => resp.index = ordinal
       /\ (number = NoIndex /\ ordinal = NoIndex /\ word # NoIndex) => resp.index = word
       /\ (number = NoIndex /\ ordinal = NoIndex /\ word = NoIndex) => resp.index = digit
       /\ resp.index = NoIndex \/ resp.index \in Nat

\* C21's case: "number 2 or the 3rd one" names 2 by the first class and 3 by the
\* second, and resolves to 2
C21_Witness ==
  /\ Called("_extract_index_from_message")
  /\ FirstMatch(str_lower(req.message), "number") = 2
  /\ FirstMatch(str_lower(req.message), "ordinal") = 3
  /\ resp.index = 2

\* the entries of an inventory that are not blank, stripped
Stocked(inventory) ==
  LET kept == SelectSeq(inventory, LAMBDA i : str_strip(i) # "")
  IN [k \in 1..Len(kept) |-> str_strip(kept[k])]

\* every entry of an inventory, stripped
Stripped(inventory) == [k \in 1..Len(inventory) |-> str_strip(inventory[k])]

\* the query the message alone gives: its first six keywords when there are at
\* least two, else None
MessageQuery(message) ==
  IF Len(Keywords(message)) >= 2 THEN str_join(" ", Slice2(Keywords(message), 1, 6))
  ELSE None

\* C22 as stated: whenever the inventory is non-empty the query is its items
\* joined, irrespective of the message; otherwise it is the message's query.
C22_QueryPriority ==
  Called("_build_recipe_query") =>
    resp.query = IF Len(req.analysis.inventory) > 0
                 THEN str_join(", ", Stripped(req.analysis.inventory))
                 ELSE MessageQuery(req.message)

\* C22, amended: whenever the inventory holds an entry that is not blank, the
\* query is its non-blank entries, stripped and joined by ", ", irrespective of
\* the message and of the analysis's query field; otherwise it is the first six
\* keywords of the message when at least two remain, else None.
C22_QueryPriorityNonBlank ==
  Called("_build_recipe_query") =>
    resp.query = IF Len(Stocked(req.analysis.inventory)) > 0
                 THEN str_join(", ", Stocked(req.analysis.inventory))
                 ELSE MessageQuery(req.message)

\* C22's case: an inventory with a blank entry and a stocked one, a message with
\* keywords of its own and a query field, and the query is the stocked entry
C22_Witness ==
  /\ Called("_build_recipe_query")
  /\ req.analysis.inventory = <<"", "eggs">>
  /\ req.analysis.query = "pasta dinner"
  /\ MessageQuery(req.message) # None
  /\ resp.query = "eggs"

\* the text the focus rules of the last call read: message and objective, lowercased
FocusText == str_lower(req.message \o " " \o StrOrEmpty(req.analysis.objective))

Mentions(words) == \E w \in words : str_contains(FocusText, w)

MentionsFiber == Mentions({"fibre", "fiber"})

MentionsProtein == Mentions({"protein"})

MentionsDeficit == Mentions({"cutting", "calorie deficit", "low calorie", "weight loss"})

\* the nutrient the stated objective maps to
ObjectiveFocus ==
  LET obj == str_lower(StrOrEmpty(req.analysis.objective))
  IN IF obj \in {"bulking", "muscle gain", "high protein"} THEN "protein"
     ELSE IF obj \in {"weight loss", "cutting"} THEN "calories"
     ELSE None

\* C23: _infer_focus_nutrient gives fiber for a fiber mention; else protein for a
\* protein mention; else calories for deficit/weight-loss vocabulary; else what
\* the stated objective maps to (bulking family protein, cutting family
\* calories); else none. An earlier rule wins over a later one, and the result
\* is one of fiber, protein, calories, none.
C23_FocusPrecedence ==
  Called("_infer_focus_nutrient") =>
    /\ MentionsFiber => resp.focus_nutrient = "fiber"
    /\ (~ MentionsFiber /\ MentionsProtein) => resp.focus_nutrient = "protein"
    /\ (~ MentionsFiber /\ ~ MentionsProtein /\ MentionsDeficit) =>
         resp.focus_nutrient = "calories"
    /\ (~ MentionsFiber /\ ~ MentionsProtein /\ ~ MentionsDeficit) =>
         resp.focus_nutrient = ObjectiveFocus
    /\ resp.focus_nutrient \in {"fiber", "protein", "calories", None}

\* C23's case: the message mentions fibre and protein, the objective is a
\* cutting one, and the focus is fiber
C23_Witness ==
  /\ Called("_infer_focus_nutrient")
  /\ MentionsFiber
  /\ MentionsProtein
  /\ MentionsDeficit
  /\ resp.focus_nutrient = "fiber"

\* the canonical form of a label: trimmed, lowercased, mapped through the
\* synonym table
Canonical(label) ==
  IF str_lower(str_strip(label)) \in DOMAIN canonical_map
  THEN canonical_map[str_lower(str_strip(label))]
  ELSE str_lower(str_strip(label))

\* the closed set of diet tags the gate enforces
Enforceable ==
  {"gluten free", "vegan", "vegetarian", "lacto ovo vegetarian", "pescetarian"}

LoweredDiets(recipe) == {str_lower(d) : d \in SeqToSet(recipe.diets)}

\* C24: a candidate passes the lifestyle gate iff every restriction whose
\* canonical form is enforceable has that canonical tag among the candidate's
\* lowercased diet tags; a restriction whose canonical form is not enforceable
\* excludes no candidate.
C24_LifestyleGate ==
  Called("_matches_lifestyle") =>
    /\ resp.passes <=>
         \A r \in req.restrictions :
           Canonical(r) \in Enforceable => Canonical(r) \in LoweredDiets(req.recipe)
    /\ (\A r \in req.restrictions : Canonical(r) \notin Enforceable) => resp.passes

\* C24's case: of the restrictions vegan and keto only vegan is enforceable, and
\* a vegetarian candidate fails on it
C24_Witness ==
  /\ Called("_matches_lifestyle")
  /\ req.restrictions = {"vegan", "keto"}
  /\ LoweredDiets(req.recipe) = {"vegetarian"}
  /\ ~ resp.passes

\* an allergy term as the gate compares it: trimmed and lowercased
Term(allergy) == str_lower(str_strip(allergy))

LoweredAllergens(recipe) == {str_lower(a) : a \in SeqToSet(recipe.allergens)}

\* C25: the allergy gate excludes a candidate iff some allergy term, trimmed,
\* lowercased and not empty, equals a lowercased allergen tag of the candidate as
\* a whole string; and filter_recipes returns no candidate that fails a gate.
C25_AllergyGate ==
  /\ Called("_violates_allergies") =>
       (resp.violates <=>
          \E a \in req.allergies :
            Term(a) # "" /\ Term(a) \in LoweredAllergens(req.recipe))
  /\ Called("filter_recipes") =>
       \A k \in 1..Len(req.recipes) :
         (\/ ~ _matches_lifestyle(req.recipes[k], req.user.dietary_restrictions)
          \/ _violates_allergies(req.recipes[k], req.user.allergies))
           => req.recipes[k] \notin SeqToSet(resp.recipes)

\* C25's case: the allergy term peanut against the allergen tag peanuts, of
\* which it is a part: the candidate is not excluded
C25_Witness ==
  /\ Called("_violates_allergies")
  /\ req.allergies = {"peanut"}
  /\ LoweredAllergens(req.recipe) = {"peanuts"}
  /\ ~ resp.violates

\* the answer of the embeddings service in the last _rerank call
EmbedAnswer == IF "_embed" \in SeqToSet(calls) THEN outs[2] ELSE NotCalled

\* the raw focus-nutrient value of a candidate of the last _rerank call: 0 when
\* no focus nutrient is given or the candidate's value is missing
ValueOf(raw) ==
  IF req.focus_nutrient = None \/ raw[req.focus_nutrient] = NoneNum THEN 0
  ELSE raw[req.focus_nutrient][1]

\* its combined score, on the scale of CombinedScore
ScoreOf(raw) ==
  ScoredEntry(raw, _extract_query_tokens(req.query), req.focus_nutrient,
              req.has_client, EmbedAnswer).key[2]

\* a goes before b in the two-key order, or ties with it
NotBelow(a, b) ==
  \/ ValueOf(a) > ValueOf(b)
  \/ ValueOf(a) = ValueOf(b) /\ ScoreOf(a) >= ScoreOf(b)

\* C26: _rerank returns the first top_k elements of its input sorted descending
\* by (raw focus-nutrient value, combined score): of two output items the
\* earlier has the greater value, or the same value and a score at least as
\* high; no candidate left out ranks above a returned one; without a focus
\* nutrient the order is by score alone.
C26_TwoKeyOrder ==
  (Called("_rerank") /\ resp.status = "returned") =>
    /\ Len(resp.recipes) = IF Len(req.raw_results) < req.top_k
                           THEN Len(req.raw_results) ELSE req.top_k
    /\ \A i, j \in 1..Len(resp.recipes) :
         i < j => NotBelow(resp.recipes[i], resp.recipes[j])
    /\ \A k \in 1..Len(req.raw_results), j \in 1..Len(resp.recipes) :
         Occurrences(req.raw_results[k], resp.recipes)
           < Occurrences(req.raw_results[k], req.raw_results)
           => NotBelow(resp.recipes[j], req.raw_results[k])
    /\ req.focus_nutrient = None =>
         \A i, j \in 1..Len(resp.recipes) :
           i < j => ScoreOf(resp.recipes[i]) >= ScoreOf(resp.recipes[j])

\* C26's case: with protein as the focus, the first of two returned candidates
\* has more protein and a lower score than the second, and a third was cut
C26_Witness ==
  /\ Called("_rerank")
  /\ resp.status = "returned"
  /\ req.focus_nutrient = "protein"
  /\ Len(req.raw_results) = 3
  /\ Len(resp.recipes) = 2
  /\ ValueOf(resp.recipes[1]) > ValueOf(resp.recipes[2])
  /\ ScoreOf(resp.recipes[1]) < ScoreOf(resp.recipes[2])

\* every recipe of `recipes` passes both gates of the compliance filter for `user`
Compliant(recipes, user) == filter_recipes(recipes, user) = recipes

\* C27: every recipe handle_message returns, in normal mode and in detail mode,
\* passes the compliance filter for the user's profile as the turn returned it
\* and as the turn persisted it.
C27_ReturnedCompliant ==
  Returned =>
    /\ Compliant(resp.recipes, resp.user)
    /\ Compliant(resp.recipes, LoadOrCreate(df, req.username))

\* C28: save_user_profile followed by load_user_profile of the same username
\* gives a profile with the dietary_restrictions, allergies, likes, dislikes,
\* inventory and objective of the saved one; saving allergies adds nothing to the
\* loaded dietary_restrictions.
C28_SaveLoadRoundTrip ==
  Called("save_user_profile") =>
    /\ Preferences(resp.user) = Preferences(req.user)
    /\ resp.user.inventory = req.user.inventory

\* C29: the lifestyle gate compares canonical tags on both sides: a candidate
\* passes for a restriction iff one of its diet tags, in any spelling of the
\* synonym table, has the canonical form of the restriction; the outcome does
\* not depend on the spelling either side uses.
C29_SynonymSymmetry ==
  Called("_matches_lifestyle") =>
    (resp.passes <=>
       \A r \in req.restrictions :
         Canonical(r) \in Enforceable =>
           \E k \in 1..Len(req.recipe.diets) :
             Canonical(req.recipe.diets[k]) = Canonical(r))

\* C30: every candidate fetch_recipes hands to the filter has an empty allergen
\* set, so the allergy gate excludes none of them whatever the user's allergies:
\* the filter's output is exactly the candidates that pass the lifestyle gate.
C30_NoAllergenData ==
  [][Ran(4) =>
       /\ \A k \in 1..Len(outs'[3]) :
            /\ outs'[3][k].allergens = <<>>
            /\ ~ _violates_allergies(outs'[3][k], TurnUser.allergies)
       /\ outs'[4] = SelectSeq(outs'[3], LAMBDA recipe :
                       _matches_lifestyle(recipe, TurnUser.dietary_restrictions))]_vars

\* C30's case: a user with an allergy, and a filter that dropped one candidate
\* and kept another
C30_Witness ==
  /\ "filter_recipes" \in SeqToSet(calls)
  /\ Returned
  /\ resp.user.allergies # {}
  /\ Len(outs[4]) > 0
  /\ Len(outs[4]) < Len(outs[3])

====
